---- MODULE Spec2Model ----
(***************************************************************************)
(* Live-window aggregation and caching engine of the sports-scores API:    *)
(*   app/core/cache.py            Cache (Redis with in-process fallback)   *)
(*   app/api/endpoints/scores.py  window policy, cache keys, /live handler *)
(*   app/services/espn_service.py upstream fetches                         *)
(*                                                                         *)
(* Python strings are sequences of one-character strings, so that lower(), *)
(* replace(), split() and strip() are computed and not assumed.  Instants  *)
(* and durations are whole minutes.                                        *)
(***************************************************************************)
EXTENDS Integers, Sequences, FiniteSets, TLC

VARIABLES
    wcall,      \* arguments of the current is_game_in_live_window call
    wret,       \* <<its return value>>, <<>> before the call returns
    cache_obj,  \* the Cache object
    redis,      \* the Redis server's keys
    redis_up,   \* whether the server answers
    now,        \* the clock, in minutes
    call,       \* the last call made on the cache, with what it returned
    last_set,   \* per key, the last set not followed by invalidate or clear
    frames,     \* the locals of each request handler between two awaits
    resp,       \* the last response of each handler
    filters,    \* the (sport, collections) pairs clients ask for
    keys_seen,  \* the cache keys computed so far and what they were computed from
    entry_writer, \* per cache key, page and page size of the request that wrote it
    kcall,      \* the two requests whose cache keys are compared
    kret,       \* <<their cache keys>>, <<>> before they are computed
    kres        \* <<what each of them fetched and answered>>, <<>> before that

wvars == <<wcall, wret>>

cvars == <<cache_obj, redis, redis_up, now, call, last_set>>

lvars == <<frames, resp, filters, keys_seen, entry_writer>>

kvars == <<kcall, kret, kres>>

vars == <<wvars, cvars, lvars, kvars>>

(***************************************************************************)
(* str methods                                                             *)
(***************************************************************************)
UpperCase ==
    <<"A","B","C","D","E","F","G","H","I","J","K","L","M",
      "N","O","P","Q","R","S","T","U","V","W","X","Y","Z">>

LowerCase ==
    <<"a","b","c","d","e","f","g","h","i","j","k","l","m",
      "n","o","p","q","r","s","t","u","v","w","x","y","z">>

lower_char(c) ==
    IF \E i \in DOMAIN UpperCase : UpperCase[i] = c
    THEN LowerCase[CHOOSE i \in DOMAIN UpperCase : UpperCase[i] = c]
    ELSE c

\* str.lower()
lower(s) ==
    [i \in DOMAIN s |-> lower_char(s[i])]

(***************************************************************************)
(* Window policy: scores.py is_game_in_live_window                         *)
(***************************************************************************)
\* timedelta(hours=n) and timedelta(days=n), in minutes
Hours(n) ==
    n * 60

Days(n) ==
    n * 24 * 60

S_in_progress ==
    <<"i","n"," ","p","r","o","g","r","e","s","s">>

S_halftime ==
    <<"h","a","l","f","t","i","m","e">>

S_1st_quarter ==
    <<"1","s","t"," ","q","u","a","r","t","e","r">>

S_2nd_quarter ==
    <<"2","n","d"," ","q","u","a","r","t","e","r">>

S_3rd_quarter ==
    <<"3","r","d"," ","q","u","a","r","t","e","r">>

S_4th_quarter ==
    <<"4","t","h"," ","q","u","a","r","t","e","r">>

S_1st_half ==
    <<"1","s","t"," ","h","a","l","f">>

S_2nd_half ==
    <<"2","n","d"," ","h","a","l","f">>

S_overtime ==
    <<"o","v","e","r","t","i","m","e">>

S_live ==
    <<"l","i","v","e">>

S_active ==
    <<"a","c","t","i","v","e">>

S_final ==
    <<"f","i","n","a","l">>

S_scheduled ==
    <<"s","c","h","e","d","u","l","e","d">>

\* statuses as the provider spells them
St_In_Progress ==
    <<"I","n"," ","P","r","o","g","r","e","s","s">>

St_Halftime ==
    <<"H","a","l","f","t","i","m","e">>

St_2nd_Half ==
    <<"2","n","d"," ","H","a","l","f">>

St_Final ==
    <<"F","i","n","a","l">>

St_FINAL ==
    <<"F","I","N","A","L">>

St_Scheduled ==
    <<"S","c","h","e","d","u","l","e","d">>

St_LIVE ==
    <<"L","I","V","E">>

St_Overtime ==
    <<"O","v","e","r","t","i","m","e">>

St_Postponed ==
    <<"P","o","s","t","p","o","n","e","d">>

St_Canceled ==
    <<"C","a","n","c","e","l","e","d">>

\* the list every mode tests status_lower against
LiveStatuses ==
    { S_in_progress, S_halftime, S_1st_quarter, S_2nd_quarter, S_3rd_quarter,
      S_4th_quarter, S_1st_half, S_2nd_half, S_overtime, S_live, S_active }

(***************************************************************************)
(* Mutations of the window rules used to test the window claims            *)
(***************************************************************************)
\* standard window that forgets the lower bound on scheduled games
standard_window_no_lower(game_date, status, current_time) ==
    LET status_lower == lower(status)
    IN  \/ status_lower \in LiveStatuses
        \/ status_lower = S_final /\ game_date >= current_time - Hours(12)
        \/ status_lower = S_scheduled /\ game_date < current_time + Hours(18)

\* tight window whose six-hour bound is exclusive
tight_window_exclusive(game_date, status, current_time) ==
    LET status_lower == lower(status)
    IN  \/ status_lower \in LiveStatuses
        \/ status_lower = S_final /\ game_date >= current_time - Hours(4)
        \/ status_lower = S_scheduled /\ game_date < current_time + Hours(6)

\* collection window reaching three days back instead of two
collection_window_three_days(game_date, status, current_time) ==
    LET status_lower == lower(status)
    IN  \/ status_lower \in LiveStatuses
        \/ status_lower = S_final /\ game_date >= current_time - Days(3)
        \/ status_lower = S_scheduled /\ game_date <= current_time + Days(2)

\* the branch taken when collection_mode is set (lines 39-59)
collection_window(game_date, status, current_time) ==
    LET two_days_ago      == current_time - Days(2)
        two_days_from_now == current_time + Days(2)
        status_lower      == lower(status)
    IN  IF status_lower \in LiveStatuses THEN TRUE
        ELSE IF status_lower = S_final /\ game_date >= two_days_ago THEN TRUE
        ELSE IF status_lower = S_scheduled /\ game_date <= two_days_from_now THEN TRUE
        ELSE FALSE

\* the branch taken when tight_window is set and collection_mode is not (lines 61-80)
tight_window_rule(game_date, status, current_time) ==
    LET four_hours_ago     == current_time - Hours(4)
        six_hours_from_now == current_time + Hours(6)
        status_lower       == lower(status)
    IN  IF status_lower \in LiveStatuses THEN TRUE
        ELSE IF status_lower = S_final /\ game_date >= four_hours_ago THEN TRUE
        ELSE IF status_lower = S_scheduled /\ game_date <= six_hours_from_now THEN TRUE
        ELSE FALSE

\* the standard window (lines 82-105)
standard_window(game_date, status, current_time) ==
    LET twelve_hours_ago        == current_time - Hours(12)
        eighteen_hours_from_now == current_time + Hours(18)
        status_lower            == lower(status)
    IN  IF status_lower \in LiveStatuses THEN TRUE
        ELSE IF status_lower = S_final /\ game_date >= twelve_hours_ago THEN TRUE
        ELSE IF /\ status_lower = S_scheduled
                /\ current_time <= game_date
                /\ game_date < eighteen_hours_from_now THEN TRUE
        ELSE FALSE

is_game_in_live_window(game_date, status, current_time, tight_window, collection_mode) ==
    IF collection_mode THEN collection_window(game_date, status, current_time)
    ELSE IF tight_window THEN tight_window_rule(game_date, status, current_time)
    ELSE standard_window(game_date, status, current_time)

(***************************************************************************)
(* TTL cache: cache.py Cache                                               *)
(*                                                                         *)
(* A Cache object is a record of its attributes.  self.cache and           *)
(* self.last_updated exist only when __init__ took its except branch       *)
(* (has_maps); self.custom_expirations exists once an in-memory set has    *)
(* run (has_custom).  The Redis server is a map from key to the stored     *)
(* text and the instant it expires.  Every method is an operator from the  *)
(* object, the server, its reachability and the clock to the new object,   *)
(* the new server, the returned value (<<>> for None, <<v>> for v) and the *)
(* exception that escaped ("" for none).                                   *)
(***************************************************************************)
\* Cache.__init__ default expiration_minutes
DefaultExpirationMinutes == 5

EmptyMap ==
    [k \in {} |-> 0]

\* d[key] = value
Put(d, key, value) ==
    [k \in DOMAIN d \cup {key} |-> IF k = key THEN value ELSE d[k]]

\* del d[key]
Del(d, key) ==
    [k \in DOMAIN d \ {key} |-> d[k]]

\* a method's outcome
Outcome(obj, rd, ret, raised) ==
    [obj |-> obj, redis |-> rd, ret |-> ret, raised |-> raised]

\* `x if expiration_minutes else y`: None and 0 are both falsy
Truthy(expiration_minutes) ==
    expiration_minutes # <<>> /\ expiration_minutes[1] # 0

\* json.dumps(value) for the values stored here: a non-string value carries its
\* JSON text
json_dumps(value) ==
    value.val

\* whether json.loads accepts the text, and the type of what it returns
JsonType(text) ==
    LET digits == {"0","1","2","3","4","5","6","7","8","9"}
    IN  IF Len(text) = 0 THEN "invalid"
        ELSE IF \A i \in DOMAIN text : text[i] \in digits THEN "int"
        ELSE IF text = <<"n","u","l","l">> THEN "NoneType"
        ELSE IF text = <<"t","r","u","e">> \/ text = <<"f","a","l","s","e">> THEN "bool"
        ELSE IF text[1] = "[" /\ text[Len(text)] = "]" THEN "list"
        ELSE IF text[1] = "{" /\ text[Len(text)] = "}" THEN "dict"
        ELSE IF Len(text) >= 2 /\ text[1] = "\"" /\ text[Len(text)] = "\"" THEN "quoted"
        ELSE "invalid"

\* Cache.get lines 54-60 on the text Redis returned
redis_decode(text) ==
    IF JsonType(text) = "invalid" THEN << [type |-> "str", val |-> text] >>
    ELSE IF JsonType(text) = "NoneType" THEN <<>>
    ELSE IF JsonType(text) = "quoted"
         THEN << [type |-> "str", val |-> SubSeq(text, 2, Len(text) - 1)] >>
    ELSE << [type |-> JsonType(text), val |-> text] >>

\* Cache.__init__: ping succeeds, or the except branch creates the two maps
Cache_init(up) ==
    [ use_redis          |-> up,
      has_maps           |-> ~up,
      cache              |-> EmptyMap,
      last_updated       |-> EmptyMap,
      has_custom         |-> FALSE,
      custom_expirations |-> EmptyMap ]

\* Cache.set lines 40-48
mem_set(obj, rd, t, key, value, expiration_minutes) ==
    IF ~obj.has_maps THEN Outcome(obj, rd, <<>>, "AttributeError")
    ELSE LET expiration == IF Truthy(expiration_minutes) THEN expiration_minutes[1]
                           ELSE DefaultExpirationMinutes
         IN  Outcome([obj EXCEPT !.cache = Put(@, key, value),
                                 !.last_updated = Put(@, key, t),
                                 !.has_custom = TRUE,
                                 !.custom_expirations = Put(@, key, expiration)],
                     rd, <<>>, "")

\* Cache.set
Cache_set(obj, rd, up, t, key, value, expiration_minutes) ==
    IF obj.use_redis /\ up
    THEN LET expiration == IF Truthy(expiration_minutes) THEN expiration_minutes[1]
                           ELSE DefaultExpirationMinutes
             serialized_value == IF value.type # "str" THEN json_dumps(value) ELSE value.val
         IN  Outcome(obj,
                     Put(rd, key, [value |-> serialized_value, expires_at |-> t + expiration]),
                     <<>>, "")
    ELSE mem_set([obj EXCEPT !.use_redis = FALSE], rd, t, key, value, expiration_minutes)

\* mem_invalidate, were the time of the write left behind
mem_invalidate_value_only(obj, rd, key) ==
    IF ~obj.has_maps THEN Outcome(obj, rd, <<>>, "AttributeError")
    ELSE IF key \in DOMAIN obj.cache
    THEN Outcome([obj EXCEPT !.cache = Del(@, key)], rd, <<>>, "")
    ELSE Outcome(obj, rd, <<>>, "")

\* Cache.invalidate lines 83-86
mem_invalidate(obj, rd, key) ==
    IF ~obj.has_maps THEN Outcome(obj, rd, <<>>, "AttributeError")
    ELSE IF key \in DOMAIN obj.cache
    THEN IF key \in DOMAIN obj.last_updated
         THEN Outcome([obj EXCEPT !.cache = Del(@, key), !.last_updated = Del(@, key)],
                      rd, <<>>, "")
         ELSE Outcome([obj EXCEPT !.cache = Del(@, key)], rd, <<>>, "KeyError")
    ELSE Outcome(obj, rd, <<>>, "")

\* Cache.invalidate
Cache_invalidate(obj, rd, up, key) ==
    IF obj.use_redis /\ up
    THEN Outcome(obj, Del(rd, key), <<>>, "")
    ELSE mem_invalidate([obj EXCEPT !.use_redis = FALSE], rd, key)

\* mem_get, were a hit to renew the time of the write
mem_get_sliding(obj, rd, t, key) ==
    IF ~obj.has_maps THEN Outcome(obj, rd, <<>>, "AttributeError")
    ELSE IF key \in DOMAIN obj.cache
    THEN LET expiration_time ==
                 IF obj.has_custom /\ key \in DOMAIN obj.custom_expirations
                 THEN obj.custom_expirations[key]
                 ELSE DefaultExpirationMinutes
         IN  IF key \notin DOMAIN obj.last_updated
             THEN Outcome(obj, rd, <<>>, "KeyError")
             ELSE IF t - obj.last_updated[key] < expiration_time
             THEN Outcome([obj EXCEPT !.last_updated = Put(@, key, t)], rd,
                          << obj.cache[key] >>, "")
             ELSE mem_invalidate(obj, rd, key)
    ELSE Outcome(obj, rd, <<>>, "")

\* mem_get, were the entry removed whenever it is looked at
mem_get_always_evicts(obj, rd, t, key) ==
    IF ~obj.has_maps THEN Outcome(obj, rd, <<>>, "AttributeError")
    ELSE IF key \in DOMAIN obj.cache
    THEN LET expiration_time ==
                 IF obj.has_custom /\ key \in DOMAIN obj.custom_expirations
                 THEN obj.custom_expirations[key]
                 ELSE DefaultExpirationMinutes
             evicted == mem_invalidate(obj, rd, key)
         IN  IF key \notin DOMAIN obj.last_updated
             THEN Outcome(obj, rd, <<>>, "KeyError")
             ELSE IF t - obj.last_updated[key] < expiration_time
             THEN Outcome(evicted.obj, rd, << obj.cache[key] >>, "")
             ELSE evicted
    ELSE Outcome(obj, rd, <<>>, "")

\* Cache.get lines 64-73
mem_get(obj, rd, t, key) ==
    IF ~obj.has_maps THEN Outcome(obj, rd, <<>>, "AttributeError")
    ELSE IF key \in DOMAIN obj.cache
    THEN LET expiration_time ==
                 IF obj.has_custom /\ key \in DOMAIN obj.custom_expirations
                 THEN obj.custom_expirations[key]
                 ELSE DefaultExpirationMinutes
         IN  IF key \notin DOMAIN obj.last_updated
             THEN Outcome(obj, rd, <<>>, "KeyError")
             ELSE IF t - obj.last_updated[key] < expiration_time
             THEN Outcome(obj, rd, << obj.cache[key] >>, "")
             ELSE mem_invalidate(obj, rd, key)
    ELSE Outcome(obj, rd, <<>>, "")

\* Cache.get
Cache_get(obj, rd, up, t, key) ==
    IF obj.use_redis /\ up
    THEN IF key \in DOMAIN rd /\ t < rd[key].expires_at
         THEN Outcome(obj, rd, redis_decode(rd[key].value), "")
         ELSE Outcome(obj, rd, <<>>, "")
    ELSE mem_get([obj EXCEPT !.use_redis = FALSE], rd, t, key)

\* Cache.clear
Cache_clear(obj, rd, up) ==
    IF obj.use_redis /\ up
    THEN Outcome(obj, EmptyMap, <<>>, "")
    ELSE IF ~obj.has_maps
    THEN Outcome([obj EXCEPT !.use_redis = FALSE], rd, <<>>, "AttributeError")
    ELSE Outcome([obj EXCEPT !.use_redis = FALSE, !.cache = EmptyMap,
                             !.last_updated = EmptyMap], rd, <<>>, "")

(***************************************************************************)
(* More str methods                                                        *)
(***************************************************************************)
RECURSIVE replace(_, _, _)
\* s.replace(old, new) for a one-character old
replace(s, old, new) ==
    IF s = <<>> THEN <<>>
    ELSE (IF Head(s) = old THEN new ELSE <<Head(s)>>) \o replace(Tail(s), old, new)

RECURSIVE split(_, _)
\* s.split(sep) for a one-character sep: always at least one piece
split(s, sep) ==
    IF \E i \in DOMAIN s : s[i] = sep
    THEN LET i == CHOOSE j \in DOMAIN s : s[j] = sep /\ \A k \in 1..(j - 1) : s[k] # sep
         IN  <<SubSeq(s, 1, i - 1)>> \o split(SubSeq(s, i + 1, Len(s)), sep)
    ELSE <<s>>

RECURSIVE strip(_)
\* s.strip(): blanks removed at both ends
strip(s) ==
    IF s = <<>> THEN s
    ELSE IF Head(s) = " " THEN strip(Tail(s))
    ELSE IF s[Len(s)] = " " THEN strip(SubSeq(s, 1, Len(s) - 1))
    ELSE s

\* an optional query parameter: <<>> is None, <<s>> is the string s
IsNone(opt) ==
    opt = <<>>

\* `if opt:` for an optional string: None and "" are falsy
TruthyStr(opt) ==
    opt # <<>> /\ opt[1] # <<>>

(***************************************************************************)
(* Sports, collections and cache keys: scores.py                           *)
(***************************************************************************)
Sp_nba ==
    <<"b","a","s","k","e","t","b","a","l","l","/","n","b","a">>

Sp_nfl ==
    <<"f","o","o","t","b","a","l","l","/","n","f","l">>

Sp_mlb ==
    <<"b","a","s","e","b","a","l","l","/","m","l","b">>

Sp_nhl ==
    <<"h","o","c","k","e","y","/","n","h","l">>

Sp_epl ==
    <<"s","o","c","c","e","r","/","e","n","g",".","1">>

Sp_mls ==
    <<"s","o","c","c","e","r","/","u","s","a",".","1">>

Sp_mcbb ==
    <<"b","a","s","k","e","t","b","a","l","l","/","m","e","n","s","-","c","o","l","l","e","g","e","-","b","a","s","k","e","t","b","a","l","l">>

Sp_wcbb ==
    <<"b","a","s","k","e","t","b","a","l","l","/","w","o","m","e","n","s","-","c","o","l","l","e","g","e","-","b","a","s","k","e","t","b","a","l","l">>

Sp_cfb ==
    <<"f","o","o","t","b","a","l","l","/","c","o","l","l","e","g","e","-","f","o","o","t","b","a","l","l">>

SK_mcbb ==
    <<"b","a","s","k","e","t","b","a","l","l","_","m","e","n","s","-","c","o","l","l","e","g","e">>

SK_wcbb ==
    <<"b","a","s","k","e","t","b","a","l","l","_","w","o","m","e","n","s","-","c","o","l","l","e","g","e">>

SK_cfb ==
    <<"c","o","l","l","e","g","e","_","f","o","o","t","b","a","l","l">>

N_nba ==
    <<"n","b","a">>

N_mcbb ==
    <<"m","c","b","b">>

N_mens_college_basketball ==
    <<"m","e","n","s","_","c","o","l","l","e","g","e","_","b","a","s","k","e","t","b","a","l","l">>

N_big_sky_spaced ==
    <<"b","i","g"," ","s","k","y">>

N_big_sky ==
    <<"b","i","g","_","s","k","y">>

N_cfb_top_25 ==
    <<"c","f","b","_","t","o","p","_","2","5">>

K_live_scores_ ==
    <<"l","i","v","e","_","s","c","o","r","e","s","_">>

K_live_scores_all_sports ==
    <<"l","i","v","e","_","s","c","o","r","e","s","_","a","l","l","_","s","p","o","r","t","s">>

K_coll_ ==
    <<"_","c","o","l","l","_">>

K_sports_scores_ ==
    <<"s","p","o","r","t","s","_","s","c","o","r","e","s","_">>

N_college_football ==
    <<"c","o","l","l","e","g","e","_","f","o","o","t","b","a","l","l">>

\* get_sport_priority
get_sport_priority(sport) ==
    IF sport = Sp_mcbb THEN 1
    ELSE IF sport = Sp_nba THEN 2
    ELSE IF sport = Sp_cfb THEN 3
    ELSE IF sport = Sp_nfl THEN 4
    ELSE IF sport = Sp_nhl THEN 5
    ELSE IF sport = Sp_mlb THEN 6
    ELSE IF sport = Sp_epl THEN 7
    ELSE IF sport = Sp_mls THEN 8
    ELSE 999

\* convert_sport_format
convert_sport_format(sport) ==
    IF sport = SK_mcbb THEN Sp_mcbb
    ELSE IF sport = SK_wcbb THEN Sp_wcbb
    ELSE IF sport = SK_cfb THEN Sp_cfb
    ELSE replace(sport, "_", <<"/">>)

\* the group id "top25"
Top25 ==
    0 - 25

\* get_collection_groups, the entries used here: collection key -> sport key -> groups
collection_groups ==
    (N_big_sky_spaced :> (SK_mcbb :> <<5>> @@ SK_cfb :> <<20>>)) @@
    (N_big_sky :> (SK_mcbb :> <<5>> @@ SK_cfb :> <<20>>)) @@
    (<<"b","i","g"," ","1","2">> :> (SK_mcbb :> <<21>> @@ SK_cfb :> <<4>>)) @@
    (<<"b","i","g","_","1","2">> :> (SK_mcbb :> <<21>> @@ SK_cfb :> <<4>>)) @@
    (N_cfb_top_25 :> (SK_cfb :> <<Top25>>)) @@
    (N_college_football :> (SK_cfb :> <<90>>)) @@
    (<<"a","l","l","_","c","o","l","l","e","g","e","_","f","o","o","t","b","a","l","l">> :> (SK_cfb :> <<99>>)) @@
    (N_mens_college_basketball :> (SK_mcbb :> <<50>>)) @@
    (<<"w","o","m","e","n","s","_","c","o","l","l","e","g","e","_","b","a","s","k","e","t","b","a","l","l">> :> (SK_wcbb :> <<50>>))

\* get_basic_sport_filters
basic_sport_filters ==
    (<<"n","f","l">> :> Sp_nfl) @@ (N_nba :> Sp_nba) @@ (<<"m","l","b">> :> Sp_mlb) @@ (<<"n","h","l">> :> Sp_nhl) @@
    (<<"c","f","b">> :> Sp_cfb) @@ (N_mcbb :> Sp_mcbb) @@
    (N_mens_college_basketball :> Sp_mcbb) @@ (<<"w","o","m","e","n","s","_","c","o","l","l","e","g","e","_","b","a","s","k","e","t","b","a","l","l">> :> Sp_wcbb) @@
    (<<"w","n","b","a">> :> <<"b","a","s","k","e","t","b","a","l","l","/","w","n","b","a">>) @@ (<<"c","o","l","l","e","g","e","_","b","a","s","e","b","a","l","l">> :> <<"b","a","s","e","b","a","l","l","/","c","o","l","l","e","g","e","-","b","a","s","e","b","a","l","l">>) @@
    (<<"p","r","e","m","i","e","r","_","l","e","a","g","u","e">> :> Sp_epl) @@ (<<"c","h","a","m","p","i","o","n","s","_","l","e","a","g","u","e">> :> <<"s","o","c","c","e","r","/","u","e","f","a",".","c","h","a","m","p","i","o","n","s">>) @@ (<<"m","l","s">> :> Sp_mls)

\* sports_to_check when no sport is given (lines 878-888)
default_sports ==
    << Sp_nba, Sp_nfl, Sp_mlb, Sp_nhl, Sp_epl, Sp_mls, Sp_mcbb, Sp_wcbb, Sp_cfb >>

\* the sport keys a collection is looked up under, in loop order (line 937)
supported_sport_keys ==
    << SK_mcbb, SK_wcbb, SK_cfb >>

\* collection_name.lower().replace(' ', '').replace('-', '_') (lines 922, 933)
collection_key(collection_name) ==
    replace(replace(lower(collection_name), " ", <<>>), "-", <<"_">>)

\* [coll.strip() for coll in collections.split(',')] (line 909)
collection_list(collections) ==
    LET parts == split(collections, ",")
    IN  [i \in DOMAIN parts |-> strip(parts[i])]

\* live_cache_key, were the page part of the key
live_cache_key_with_page(request) ==
    LET base == IF TruthyStr(request.sport)
                THEN K_live_scores_ \o replace(request.sport[1], ".", <<"_">>)
                ELSE K_live_scores_all_sports
        paged == base \o [i \in 1..request.page |-> "p"]
    IN  IF TruthyStr(request.collections)
        THEN paged \o K_coll_
                   \o replace(replace(request.collections[1], ",", <<"_">>), " ", <<>>)
        ELSE paged

\* cache key of /live for a request (lines 871-893): page and page_size are not read
live_cache_key(request) ==
    LET base == IF TruthyStr(request.sport)
                THEN K_live_scores_ \o replace(request.sport[1], ".", <<"_">>)
                ELSE K_live_scores_all_sports
    IN  IF TruthyStr(request.collections)
        THEN base \o K_coll_
                  \o replace(replace(request.collections[1], ",", <<"_">>), " ", <<>>)
        ELSE base

\* sports_to_check (lines 871-888)
sports_to_check(request) ==
    IF TruthyStr(request.sport) THEN << convert_sport_format(request.sport[1]) >>
    ELSE default_sports

(***************************************************************************)
(* Upstream provider and the fetches of espn_service.py                    *)
(*                                                                         *)
(* An upstream partition is a sport with a group id, the top-25 filter or  *)
(* no filter.  What the provider holds for each partition is fixed; every  *)
(* call either succeeds ("ok"), answers a non-2xx status ("non2xx") or     *)
(* raises ("raise": no connection, timeout, a body that is not JSON).      *)
(* Event dates are minutes on the clock of the model (an ISO-8601 UTC      *)
(* string in the source, parsed at line 989).                              *)
(***************************************************************************)
Ev(id, date, status) ==
    [id |-> id, date |-> date, status |-> status]

Partition(kind, sport, group) ==
    [kind |-> kind, sport |-> sport, group |-> group]

\* the threshold of line 963
CollectionLimit == 25

\* a scoreboard with one game more than the threshold
BigScoreboard ==
    [i \in 1..(CollectionLimit + 1) |-> Ev(500 + i, 30 * (CollectionLimit + 2 - i), St_Scheduled)]

\* the events the provider holds for a partition
UpstreamEvents(p) ==
    IF p.kind = "general" /\ p.sport = Sp_mcbb
    THEN << Ev(401, 0 - 60, St_In_Progress), Ev(402, 0 - 238, St_Final),
            Ev(403, 0 - 1500, St_Final) >>
    ELSE IF p.kind = "general" /\ p.sport = Sp_nba
    THEN << Ev(601, 0 - 238, St_Final), Ev(602, 300, St_Scheduled) >>
    ELSE IF p.kind = "group" /\ p.sport = Sp_mcbb /\ p.group = 5
    THEN << Ev(402, 0 - 238, St_Final), Ev(404, 0 - 4000, St_Final) >>
    ELSE IF p.kind = "group" /\ p.sport = Sp_cfb /\ p.group = 20
    THEN << Ev(501, 780, St_Scheduled), Ev(502, 60, St_Scheduled) >>
    ELSE IF p.kind = "group" /\ p.sport = Sp_cfb /\ p.group = 90
    THEN BigScoreboard
    ELSE IF p.kind = "top25" /\ p.sport = Sp_cfb
    THEN << Ev(501, 780, St_Scheduled) >>
    ELSE <<>>

FetchOutcomes ==
    {"ok", "non2xx", "raise"}

\* what a fetch hands back: the events, and whether it raised
Fetched(events, raised) ==
    [events |-> events, raised |-> raised]

\* an event dictionary of the service: game_details is "absent" (no such key: events
\* of _fetch_from_endpoint), "None" (_transform_event) or "details"; src records
\* which kind of fetch produced it
Game(e, game_details, src) ==
    [ id |-> e.id, date |-> e.date, status |-> e.status, sport |-> <<>>,
      game_details |-> game_details, src |-> src ]

RECURSIVE dedup_from(_, _)
\* the seen_ids loops: keep the first event of every id not seen yet
dedup_from(seen_ids, scores) ==
    IF scores = <<>> THEN <<>>
    ELSE IF Head(scores).id \in seen_ids THEN dedup_from(seen_ids, Tail(scores))
    ELSE <<Head(scores)>> \o dedup_from(seen_ids \cup {Head(scores).id}, Tail(scores))

\* ids of the games _enrich_with_detailed_status asks details for (lines 154-157)
in_progress_ids(scores) ==
    { scores[i].id : i \in { j \in DOMAIN scores :
          scores[j].status \in {St_In_Progress, St_Halftime, St_2nd_Half} } }

\* the games _enrich_with_detailed_status calls fetch_game_details for (line 161)
details_asked(scores) ==
    { [ id |-> scores[i].id, status |-> scores[i].status ] :
          i \in { j \in DOMAIN scores :
                     /\ scores[j].id \in in_progress_ids(scores)
                     /\ scores[j].status \in {St_In_Progress, St_Halftime, St_2nd_Half} } }

\* _enrich_with_detailed_status, were a game in progress whose details could not
\* be fetched left out of the list
enrich_or_drop(scores, detailed) ==
    LET fetched(score) == score.id \notin in_progress_ids(scores) \/ score.id \in detailed
        kept == SelectSeq(scores, fetched)
    IN  [ i \in DOMAIN kept |->
            IF kept[i].id \in in_progress_ids(scores) \cap detailed
            THEN [kept[i] EXCEPT !.game_details = "details"]
            ELSE kept[i] ]

\* _enrich_with_detailed_status; detailed is the set of ids whose fetch_game_details
\* returned a non-empty dictionary
enrich_with_detailed_status(scores, detailed) ==
    [ i \in DOMAIN scores |->
        IF scores[i].id \in in_progress_ids(scores) \cap detailed
        THEN [scores[i] EXCEPT !.game_details = "details"]
        ELSE scores[i] ]

\* fetch_scores: never raises; duplicates dropped, at most limit events, enriched
fetch_scores(sport, limit, outcome, detailed) ==
    IF outcome = "ok"
    THEN LET raw == UpstreamEvents(Partition("general", sport, 0))
             all_scores == [i \in DOMAIN raw |-> Game(raw[i], "absent", "general")]
             unique_scores == dedup_from({}, all_scores)
             limited_scores == SubSeq(unique_scores, 1,
                                      IF Len(unique_scores) < limit
                                      THEN Len(unique_scores) ELSE limit)
         IN  Fetched(enrich_with_detailed_status(limited_scores, detailed), FALSE)
    ELSE Fetched(<<>>, FALSE)

\* fetch_conference_games: [] on a non-200 status, anything else escapes
fetch_conference_games(sport, group_id, outcome, detailed) ==
    IF outcome = "ok"
    THEN LET raw == UpstreamEvents(Partition("group", sport, group_id))
             games == [i \in DOMAIN raw |-> Game(raw[i], "None", "collection")]
         IN  Fetched(enrich_with_detailed_status(games, detailed), FALSE)
    ELSE IF outcome = "non2xx" THEN Fetched(<<>>, FALSE)
    ELSE Fetched(<<>>, TRUE)

\* fetch_top25_games: the scoreboard's games with a ranked competitor
fetch_top25_games(sport, outcome) ==
    IF outcome = "ok"
    THEN LET raw == UpstreamEvents(Partition("top25", sport, Top25))
         IN  Fetched([i \in DOMAIN raw |-> Game(raw[i], "None", "collection")], FALSE)
    ELSE IF outcome = "non2xx" THEN Fetched(<<>>, FALSE)
    ELSE Fetched(<<>>, TRUE)

(***************************************************************************)
(* get_live_scores, scores.py lines 859-1116                               *)
(*                                                                         *)
(* The handler is a coroutine: it runs without interruption between two    *)
(* awaits.  A frame holds its locals while it waits; every action below    *)
(* runs it from one await to the next.                                     *)
(***************************************************************************)
\* limit=50 of line 985
FetchLimit == 50

\* expiration_minutes=2 of line 1057
LiveExpirationMinutes == 2

Request(sport, collections, page, page_size, force_refresh) ==
    [ sport |-> sport, collections |-> collections, page |-> page,
      page_size |-> page_size, force_refresh |-> force_refresh ]

NoRequest ==
    Request(<<>>, <<>>, 0, 0, FALSE)

\* the locals of the handler; any_ok, any_failed, coll_ids and gen_ids record which
\* fetches succeeded and the ids they handed to the handler, seen_writer the
\* unexpired write under the request's key when the request arrived, gen_done the
\* calls of fetch_scores made so far with the window flags applied to their games,
\* detail_asked the games fetch_game_details was called for and detail_ok the ids
\* it returned details for, evicted whether the handler's cache.get removed an
\* expired entry
IdleFrame ==
    [ pc |-> "idle", request |-> NoRequest, sport |-> <<>>, cache_key |-> <<>>,
      current_time |-> 0, sport_filters_requested |-> <<>>, coll_todo |-> <<>>,
      collection_scores |-> <<>>, gen_todo |-> <<>>, all_live_scores |-> <<>>,
      enrich_todo |-> <<>>, enriched_games |-> <<>>,
      any_ok |-> FALSE, any_failed |-> FALSE, coll_ids |-> {}, gen_ids |-> {},
      seen_writer |-> <<>>, gen_done |-> <<>>, detail_asked |-> {}, detail_ok |-> {},
      evicted |-> FALSE ]

\* ids of a list of games
ids(scores) ==
    { scores[i].id : i \in DOMAIN scores }

\* the groups one collection key has under the n-th supported sport key (lines 937-944)
groups_of(key, n) ==
    LET sport_key == supported_sport_keys[n]
    IN  IF sport_key \in DOMAIN collection_groups[key]
        THEN LET groups == collection_groups[key][sport_key]
             IN  [ j \in DOMAIN groups |->
                     [ espn_sport |-> convert_sport_format(sport_key),
                       group_id |-> groups[j] ] ]
        ELSE <<>>

RECURSIVE collection_partitions_with_default(_)
\* collection_partitions, were a name the table does not hold fetched as group
\* 0 of college football
collection_partitions_with_default(actual_collections) ==
    IF actual_collections = <<>> THEN <<>>
    ELSE LET key == collection_key(Head(actual_collections))
         IN  (IF key \in DOMAIN collection_groups
              THEN groups_of(key, 1) \o groups_of(key, 2) \o groups_of(key, 3)
              ELSE << [ espn_sport |-> Sp_cfb, group_id |-> 0 ] >>)
             \o collection_partitions_with_default(Tail(actual_collections))

RECURSIVE collection_partitions(_)
\* the fetches the loops of lines 932-950 make, in order
collection_partitions(actual_collections) ==
    IF actual_collections = <<>> THEN <<>>
    ELSE LET key == collection_key(Head(actual_collections))
         IN  (IF key \in DOMAIN collection_groups
              THEN groups_of(key, 1) \o groups_of(key, 2) \o groups_of(key, 3)
              ELSE <<>>)
             \o collection_partitions(Tail(actual_collections))

\* lines 903-930: a cache miss starts the aggregation
begin_aggregation(request, cache_key, t) ==
    LET names == IF TruthyStr(request.collections)
                 THEN collection_list(request.collections[1]) ELSE <<>>
        is_filter(name) == collection_key(name) \in DOMAIN basic_sport_filters
        is_collection(name) == ~is_filter(name)
        sport_filters == SelectSeq(names, is_filter)
        actual_collections == SelectSeq(names, is_collection)
    IN  [ IdleFrame EXCEPT
            !.pc = "collections", !.request = request, !.sport = request.sport,
            !.cache_key = cache_key, !.current_time = t,
            !.sport_filters_requested =
                [ i \in DOMAIN sport_filters |->
                      basic_sport_filters[collection_key(sport_filters[i])] ],
            !.coll_todo = collection_partitions(actual_collections) ]

\* collection_step, were a failed group to discard the games collected before it
collection_step_discards(f, outcome, detailed) ==
    LET p == Head(f.coll_todo)
        got == IF p.group_id = Top25
               THEN fetch_top25_games(p.espn_sport, outcome)
               ELSE fetch_conference_games(p.espn_sport, p.group_id, outcome, detailed)
        games == [ i \in DOMAIN got.events |->
                     [got.events[i] EXCEPT !.sport = p.espn_sport] ]
    IN  [ f EXCEPT !.coll_todo = Tail(f.coll_todo),
                   !.collection_scores = IF got.raised THEN <<>> ELSE @ \o games,
                   !.any_ok = @ \/ outcome = "ok",
                   !.any_failed = @ \/ outcome # "ok",
                   !.coll_ids = IF outcome = "ok" THEN @ \cup ids(games) ELSE @,
                   !.detail_asked = IF p.group_id = Top25 THEN @
                                    ELSE @ \cup details_asked(got.events),
                   !.detail_ok = IF p.group_id = Top25 THEN @
                                 ELSE @ \cup (in_progress_ids(got.events) \cap detailed) ]

\* lines 945-960: one group of a collection is fetched
collection_step(f, outcome, detailed) ==
    LET p == Head(f.coll_todo)
        got == IF p.group_id = Top25
               THEN fetch_top25_games(p.espn_sport, outcome)
               ELSE fetch_conference_games(p.espn_sport, p.group_id, outcome, detailed)
        games == [ i \in DOMAIN got.events |->
                     [got.events[i] EXCEPT !.sport = p.espn_sport] ]
    IN  [ f EXCEPT !.coll_todo = Tail(f.coll_todo),
                   !.collection_scores = IF got.raised THEN @ ELSE @ \o games,
                   !.any_ok = @ \/ outcome = "ok",
                   !.any_failed = @ \/ outcome # "ok",
                   !.coll_ids = IF outcome = "ok" THEN @ \cup ids(games) ELSE @,
                   !.detail_asked = IF p.group_id = Top25 THEN @
                                    ELSE @ \cup details_asked(got.events),
                   !.detail_ok = IF p.group_id = Top25 THEN @
                                 ELSE @ \cup (in_progress_ids(got.events) \cap detailed) ]

\* decide_general, were the sport filters among the collection names not to
\* replace sports_to_check
decide_general_ignores_filters(f) ==
    IF TruthyStr(f.request.collections) /\ Len(f.collection_scores) > CollectionLimit
    THEN [ f EXCEPT !.pc = "sort", !.all_live_scores = f.collection_scores ]
    ELSE LET should_fetch_general_sports ==
                 IsNone(f.request.collections) \/ Len(f.sport_filters_requested) > 0
         IN  [ f EXCEPT !.pc = "general",
                        !.gen_todo =
                            IF ~should_fetch_general_sports THEN <<>>
                            ELSE sports_to_check(f.request) ]

\* lines 963-980: after the collections, which general sports are fetched
decide_general(f) ==
    IF TruthyStr(f.request.collections) /\ Len(f.collection_scores) > CollectionLimit
    THEN [ f EXCEPT !.pc = "sort", !.all_live_scores = f.collection_scores ]
    ELSE LET should_fetch_general_sports ==
                 IsNone(f.request.collections) \/ Len(f.sport_filters_requested) > 0
         IN  [ f EXCEPT !.pc = "general",
                        !.gen_todo =
                            IF ~should_fetch_general_sports THEN <<>>
                            ELSE IF f.sport_filters_requested # <<>>
                            THEN f.sport_filters_requested
                            ELSE sports_to_check(f.request) ]

\* lines 983-1004: one general sport is fetched and filtered by the window
general_step(f, outcome, detailed) ==
    LET espn_sport_format == Head(f.gen_todo)
        got == fetch_scores(espn_sport_format, FetchLimit, outcome, detailed)
        use_tight_window == IsNone(f.request.collections)
        in_window(score) ==
            is_game_in_live_window(score.date, score.status, f.current_time,
                                   use_tight_window, ~IsNone(f.request.collections))
        kept == SelectSeq(got.events, in_window)
        scores == [ i \in DOMAIN kept |-> [kept[i] EXCEPT !.sport = espn_sport_format] ]
    IN  [ f EXCEPT !.gen_todo = Tail(f.gen_todo),
                   !.gen_done = Append(@, [ sport |-> espn_sport_format,
                                            tight_window |-> use_tight_window,
                                            collection_mode |-> ~IsNone(f.request.collections),
                                            fetched |-> got.events, kept |-> scores ]),
                   !.all_live_scores = @ \o scores,
                   !.any_ok = @ \/ outcome = "ok",
                   !.any_failed = @ \/ outcome # "ok",
                   !.gen_ids = IF outcome = "ok" THEN @ \cup ids(scores) ELSE @,
                   !.detail_asked = @ \cup details_asked(got.events),
                   !.detail_ok = @ \cup (in_progress_ids(got.events) \cap detailed) ]

\* combine, were the general games to go first
combine_general_first(collection_scores, all_live_scores) ==
    IF collection_scores # <<>>
    THEN dedup_from({}, all_live_scores \o collection_scores)
    ELSE all_live_scores

\* lines 1006-1023: collection games first, then the general games not seen yet
combine(collection_scores, all_live_scores) ==
    IF collection_scores # <<>>
    THEN dedup_from({}, collection_scores \o all_live_scores)
    ELSE all_live_scores

\* comparison of the two-element sort keys
key_less(a, b) ==
    a[1] < b[1] \/ (a[1] = b[1] /\ a[2] < b[2])

\* the list with x put after its first n games
insert_after(sorted, n, x) ==
    SubSeq(sorted, 1, n) \o <<x>> \o SubSeq(sorted, n + 1, Len(sorted))

RECURSIVE sort_by_date_reverse(_, _)
RECURSIVE sort_by_priority_and_date(_, _)
\* the key of the first sort: dates in descending order
by_date_reverse(x) ==
    << 0, 0 - x.date >>

\* the key of the second and third sort, were the sport priority left out
by_date_only(x) ==
    << 0, x.date >>

\* the key of the second and third sort
by_priority_and_date(x) ==
    << get_sport_priority(x.sport), x.date >>

\* list.sort(key=lambda x: x['date'], reverse=True): stable (line 1026); a game
\* goes after the games whose key is not greater
sort_by_date_reverse(sorted, scores) ==
    IF scores = <<>> THEN sorted
    ELSE LET x == Head(scores)
             n == Cardinality({ i \in DOMAIN sorted :
                      ~key_less(by_date_reverse(x), by_date_reverse(sorted[i])) })
         IN  sort_by_date_reverse(insert_after(sorted, n, x), Tail(scores))

\* list.sort(key=lambda x: (get_sport_priority(x['sport']), x['date'])): stable
\* (lines 1030, 1053)
sort_by_priority_and_date(sorted, scores) ==
    IF scores = <<>> THEN sorted
    ELSE LET x == Head(scores)
             n == Cardinality({ i \in DOMAIN sorted :
                      ~key_less(by_priority_and_date(x), by_priority_and_date(sorted[i])) })
         IN  sort_by_priority_and_date(insert_after(sorted, n, x), Tail(scores))

RECURSIVE distinct_sports(_, _)
\* the keys of games_by_sport in insertion order (lines 1034-1039)
distinct_sports(seen, scores) ==
    IF scores = <<>> THEN <<>>
    ELSE IF Head(scores).sport \in seen THEN distinct_sports(seen, Tail(scores))
    ELSE <<Head(scores).sport>>
         \o distinct_sports(seen \cup {Head(scores).sport}, Tail(scores))

\* lines 1025-1042: the two sorts and the grouping by sport; the grouping loop
\* assigns the local name sport
sort_and_group(f) ==
    LET sorted == sort_by_priority_and_date(<<>>,
                      sort_by_date_reverse(<<>>, f.all_live_scores))
    IN  [ f EXCEPT !.pc = "enrich", !.all_live_scores = sorted,
                   !.sport = IF sorted = <<>> THEN @ ELSE <<sorted[Len(sorted)].sport>>,
                   !.enrich_todo = distinct_sports({}, sorted) ]

\* runs the handler up to its next await
advance(f) ==
    LET f1 == IF f.pc = "collections" /\ f.coll_todo = <<>> THEN decide_general(f) ELSE f
        f2 == IF f1.pc = "general" /\ f1.gen_todo = <<>>
              THEN [ f1 EXCEPT !.pc = "sort",
                               !.all_live_scores =
                                   combine(f1.collection_scores, f1.all_live_scores) ]
              ELSE f1
    IN  IF f2.pc = "sort" THEN sort_and_group(f2) ELSE f2

\* lines 1043-1050: the games of one sport are enriched
enrich_step(f, detailed) ==
    LET sport == Head(f.enrich_todo)
        of_sport(game) == game.sport = sport
        games == SelectSeq(f.all_live_scores, of_sport)
    IN  [ f EXCEPT !.enrich_todo = Tail(f.enrich_todo), !.sport = <<sport>>,
                   !.enriched_games = @ \o enrich_with_detailed_status(games, detailed),
                   !.detail_asked = @ \cup details_asked(games),
                   !.detail_ok = @ \cup (in_progress_ids(games) \cap detailed) ]

\* filter_description (lines 1084-1107), by its parts instead of its text: the
\* sport it names, or the sport filters and the other names it lists; sport is
\* the local name sport when the response is built
filter_description(sport, collections) ==
    IF TruthyStr(sport)
    THEN [ text |-> "Specific sport", sport |-> sport[1],
           sport_filters |-> <<>>, other_collections |-> <<>> ]
    ELSE IF TruthyStr(collections)
    THEN LET names == collection_list(collections[1])
             is_filter(coll) == collection_key(coll) \in DOMAIN basic_sport_filters
             is_other(coll) == ~is_filter(coll)
             sport_filters == SelectSeq(names, is_filter)
             other_collections == SelectSeq(names, is_other)
         IN  [ text |-> IF sport_filters # <<>> /\ other_collections # <<>>
                        THEN "Sports, Collections"
                        ELSE IF sport_filters # <<>> THEN "Sports" ELSE "Collections",
               sport |-> <<>>,
               sport_filters |-> sport_filters, other_collections |-> other_collections ]
    ELSE [ text |-> "All sports", sport |-> <<>>,
           sport_filters |-> <<>>, other_collections |-> <<>> ]

\* all_live_scores[offset:end_index] (lines 1061-1063)
page_of(scores, page, page_size) ==
    LET offset == (page - 1) * page_size
        end_index == offset + page_size
    IN  SubSeq(scores, offset + 1, IF end_index < Len(scores) THEN end_index ELSE Len(scores))

\* Response, were an empty page an error on every page
Response_empty_is_error(endpoint, f, scores, from_cache) ==
    LET paginated_scores == page_of(scores, f.request.page, f.request.page_size)
    IN  [ endpoint |-> endpoint,
          status |-> IF paginated_scores = <<>> THEN 404 ELSE 200,
          data |-> paginated_scores, total_scores |-> Len(scores), scores |-> scores,
          from_cache |-> from_cache, request |-> f.request, cache_key |-> f.cache_key,
          sport |-> f.sport,
          any_ok |-> f.any_ok, any_failed |-> f.any_failed,
          coll_ids |-> f.coll_ids, gen_ids |-> f.gen_ids, seen_writer |-> f.seen_writer,
          frame |-> f, filter |-> filter_description(f.sport, f.request.collections) ]

\* lines 1059-1116: the response; 404 when a page after the first is empty; frame
\* keeps the locals the handler ended with
Response(endpoint, f, scores, from_cache) ==
    LET paginated_scores == page_of(scores, f.request.page, f.request.page_size)
    IN  [ endpoint |-> endpoint,
          status |-> IF paginated_scores = <<>> /\ f.request.page > 1 THEN 404 ELSE 200,
          data |-> paginated_scores, total_scores |-> Len(scores), scores |-> scores,
          from_cache |-> from_cache, request |-> f.request, cache_key |-> f.cache_key,
          sport |-> f.sport,
          any_ok |-> f.any_ok, any_failed |-> f.any_failed,
          coll_ids |-> f.coll_ids, gen_ids |-> f.gen_ids, seen_writer |-> f.seen_writer,
          frame |-> f, filter |-> filter_description(f.sport, f.request.collections) ]

\* an exception that leaves the handler: the framework answers 500
ErrorResponse(endpoint, f) ==
    [ Response(endpoint, f, <<>>, FALSE) EXCEPT !.status = 500 ]

NoResponse ==
    [ Response("", IdleFrame, <<>>, FALSE) EXCEPT !.status = 0 ]

(***************************************************************************)
(* get_scores, scores.py lines 620-660                                     *)
(***************************************************************************)
\* limit: int = 10 of fetch_scores
DefaultLimit == 10

\* cache key of /scores (line 634)
scores_cache_key(request) ==
    K_sports_scores_ \o replace(request.sport[1], ".", <<"_">>)

(***************************************************************************)
(* The handlers at work                                                    *)
(*                                                                         *)
(* frames       the locals of each handler between two awaits              *)
(* resp         the last response of each handler                          *)
(* filters      the (sport, collections) pairs clients ask for             *)
(* keys_seen    the cache keys computed so far, with the endpoint and the  *)
(*              parameters other than page, page_size and force_refresh    *)
(* entry_writer for every cache key, the page and page size of the         *)
(*              request that wrote the entry last                          *)
(***************************************************************************)
\* the handlers that can be between two awaits at the same time
Handlers ==
    {1, 2}

\* the handler that serves the requests when they come one after another
LiveHandlers ==
    {1}

Filter(sport, collections) ==
    [ sport |-> sport, collections |-> collections ]

\* what the clients of one behaviour ask for
FilterSets ==
    { { Filter(<<>>, <<>>) },
      { Filter(<< <<"b","a","s","k","e","t","b","a","l","l","_","n","b","a">> >>, <<>>) },
      { Filter(<<>>, << N_nba \o <<",">> \o N_nba >>) },
      { Filter(<<>>, << N_big_sky >>) },
      { Filter(<<>>, << N_big_sky \o <<",">> \o N_mcbb >>) },
      { Filter(<<>>, << N_college_football \o <<","," ">> \o N_big_sky_spaced >>) },
      { Filter(<< <<"b","a","s","k","e","t","b","a","l","l","_","n","b","a">> >>, << N_mcbb >>) } }

LiveMaxTime == 2

MaxPage == 2

\* games fetch_game_details may answer for
DetailIds ==
    {401, 402}

\* the default page size of /live (line 864)
DefaultPageSize == 10

PageSizes ==
    {1, DefaultPageSize}

\* every page and page size without force_refresh; force_refresh for the first
\* page of a single sport without collections
Requests ==
    { r \in { Request(f.sport, f.collections, page, page_size, force_refresh) :
                f \in filters, page \in 1..MaxPage, page_size \in PageSizes,
                force_refresh \in BOOLEAN } :
        r.force_refresh =>
            (/\ r.page = 1 /\ r.page_size = DefaultPageSize
             /\ TruthyStr(r.sport) /\ IsNone(r.collections)) }

KeysIdle ==
    /\ kcall = << >>
    /\ kret = << >>
    /\ kres = << >>

LiveIdle ==
    /\ frames = [h \in Handlers |-> IdleFrame]
    /\ resp = [h \in Handlers |-> NoResponse]
    /\ filters = {}
    /\ keys_seen = {}
    /\ entry_writer = EmptyMap

(***************************************************************************)
(* The cache used on its own: any sequence of set, get, invalidate and     *)
(* clear on one Cache object, while time passes and the Redis server       *)
(* comes and goes                                                          *)
(***************************************************************************)
\* the clock stops here
MaxTime == 5

\* the largest expiration_minutes passed to set
MaxTtl == 1

CKeys ==
    { <<"a">>, <<"b">> }

CValues ==
    { [type |-> "list", val |-> <<"[","1","]">>],
      [type |-> "str", val |-> <<"x">>],
      [type |-> "str", val |-> <<"1">>],
      [type |-> "str", val |-> <<"n","u","l","l">>] }

\* the strings that json.loads accepts
JsonStrings ==
    { v \in CValues : v.type = "str" /\ JsonType(v.val) # "invalid" }

\* expiration_minutes: not passed (None), or 0..MaxTtl
TtlArgs ==
    { <<>> } \cup { <<n>> : n \in 0..MaxTtl }

\* the sets tried: every expiration on key a for the list and the plain string,
\* the strings that are JSON text without expiration, one write on key b
SetArgs ==
    { <<k, v, e>> \in CKeys \X CValues \X TtlArgs :
          IF v \in JsonStrings THEN k = <<"a">> /\ e = <<>>
          ELSE k = <<"a">> \/ (v.type = "list" /\ e = <<>>) }

CallRecord(op, key, ret, raised, store_failed) ==
    [ op |-> op, key |-> key, ret |-> ret, raised |-> raised,
      store_failed |-> store_failed ]

CacheIdle ==
    /\ cache_obj = Cache_init(FALSE)
    /\ redis = EmptyMap
    /\ redis_up = FALSE
    /\ now = 0
    /\ call = CallRecord("init", <<>>, <<>>, "", FALSE)
    /\ last_set = EmptyMap

(***************************************************************************)
(* Calls of the window policy                                              *)
(***************************************************************************)
\* statuses the policy is called with
WStatuses ==
    { St_In_Progress, St_Halftime, St_2nd_Half, St_Final, St_FINAL, S_final,
      St_Scheduled, S_scheduled, St_LIVE, St_Overtime, St_Postponed, St_Canceled }

\* minutes from 2024-01-08T00:00Z to hour h of the d-th day after it
Instant(d, h) ==
    Days(d) + Hours(h)

\* 2024-01-10T20:00Z
ScenarioNow ==
    Instant(2, 20)

\* start times are tried this many minutes on either side of every window edge
WindowSlack == 1

WEdges ==
    { 0 - Days(2), 0 - Hours(12), 0 - Hours(4), 0, Hours(6), Hours(18), Days(2) }

WOffsets ==
    { e + s : e \in WEdges, s \in (0 - WindowSlack)..WindowSlack }
        \cup { 0 - Hours(60), 0 - Hours(59), 0 - Hours(11), Hours(5) }

WCalls ==
    [ game_date       : { ScenarioNow + o : o \in WOffsets },
      status          : WStatuses,
      current_time    : { ScenarioNow },
      tight_window    : BOOLEAN,
      collection_mode : BOOLEAN ]

WindowIdle ==
    /\ wcall = [ game_date |-> 0, status |-> <<>>, current_time |-> 0,
                 tight_window |-> FALSE, collection_mode |-> FALSE ]
    /\ wret = <<>>

InitWindow ==
    /\ wcall \in WCalls
    /\ wret = <<>>
    /\ CacheIdle
    /\ LiveIdle
    /\ KeysIdle

\* one call of is_game_in_live_window returning
WindowCall ==
    /\ wret = <<>>
    /\ wret' = << is_game_in_live_window(wcall.game_date, wcall.status, wcall.current_time,
                                         wcall.tight_window, wcall.collection_mode) >>
    /\ UNCHANGED wcall
    /\ UNCHANGED <<cvars, lvars>>
    /\ UNCHANGED kvars

NextWindow ==
    WindowCall

SpecWindow ==
    InitWindow /\ [][NextWindow]_vars

(***************************************************************************)
(* Window claims                                                           *)
(***************************************************************************)
WReturned ==
    wret # <<>>

WValue ==
    wret[1]

WMode ==
    IF wcall.collection_mode THEN "broad"
    ELSE IF wcall.tight_window THEN "tight"
    ELSE "standard"

WLive ==
    lower(wcall.status) \in LiveStatuses

WFinal ==
    lower(wcall.status) = S_final

WScheduled ==
    lower(wcall.status) = S_scheduled

\* minutes since the start, negative before it
WAge ==
    wcall.current_time - wcall.game_date

\* minutes until the start, negative after it
WTimeToStart ==
    wcall.game_date - wcall.current_time

\* C5: in every mode the policy returns true exactly when the status is live, or
\* final with start >= now - 12h / 4h / 48h, or scheduled with now <= start < now + 18h
\* (standard), start <= now + 6h (tight), start <= now + 48h (broad); any other
\* status, compared case-insensitively, gives false.
C5_WindowPerMode ==
    WReturned =>
        LET start == wcall.game_date
            now_  == wcall.current_time
            std   == \/ WLive
                     \/ WFinal /\ start >= now_ - 720
                     \/ WScheduled /\ now_ <= start /\ start < now_ + 1080
            tght  == \/ WLive
                     \/ WFinal /\ start >= now_ - 240
                     \/ WScheduled /\ start <= now_ + 360
            brd   == \/ WLive
                     \/ WFinal /\ start >= now_ - 2880
                     \/ WScheduled /\ start <= now_ + 2880
        IN  /\ WMode = "standard" => WValue = std
            /\ WMode = "tight" => WValue = tght
            /\ WMode = "broad" => WValue = brd
            /\ ~(WLive \/ WFinal \/ WScheduled) => WValue = FALSE

\* a scheduled game that started a minute ago: out in standard mode
C5_Witness ==
    /\ WReturned
    /\ WValue = FALSE
    /\ WMode = "standard"
    /\ wcall.status = St_Scheduled
    /\ WTimeToStart = 0 - 1

\* C6 as claimed: tight and broad follow the standard law, scheduled games being
\* included only for 0 <= time-to-start < 6h (tight) or < 48h (broad).
C6_AsClaimed ==
    WReturned =>
        LET tght == \/ WLive
                    \/ WFinal /\ WAge <= 240
                    \/ WScheduled /\ 0 <= WTimeToStart /\ WTimeToStart < 360
            brd  == \/ WLive
                    \/ WFinal /\ WAge <= 2880
                    \/ WScheduled /\ 0 <= WTimeToStart /\ WTimeToStart < 2880
        IN  /\ WMode = "tight" => WValue = tght
            /\ WMode = "broad" => WValue = brd

\* C6 amended: under tight the policy is true iff live, or final with age <= 4h, or
\* scheduled with time-to-start <= 6h; under broad iff live, or final with age <= 48h,
\* or scheduled with time-to-start <= 48h (no lower bound, upper bound included).
C6_TightBroadLaw ==
    WReturned =>
        LET tght == \/ WLive
                    \/ WFinal /\ WAge <= 240
                    \/ WScheduled /\ WTimeToStart <= 360
            brd  == \/ WLive
                    \/ WFinal /\ WAge <= 2880
                    \/ WScheduled /\ WTimeToStart <= 2880
        IN  /\ WMode = "tight" => WValue = tght
            /\ WMode = "broad" => WValue = brd

\* a scheduled game whose start has passed is still in the tight window
C6_Witness ==
    /\ WReturned
    /\ WValue = TRUE
    /\ WMode = "tight"
    /\ WScheduled
    /\ WTimeToStart < 0

\* the three events of the scenario, at now = 2024-01-10T20:00Z; C is taken both
\* 60h before now and at the timestamp given for it, 2024-01-08T09:00Z (59h before)
WEventA ==
    /\ wcall.current_time = ScenarioNow
    /\ wcall.status = St_Final
    /\ wcall.game_date = Instant(2, 9)

WEventB ==
    /\ wcall.current_time = ScenarioNow
    /\ wcall.status = St_Scheduled
    /\ wcall.game_date = Instant(3, 1)

WEventC ==
    /\ wcall.current_time = ScenarioNow
    /\ wcall.status = St_Final
    /\ wcall.game_date \in { ScenarioNow - Hours(60), Instant(0, 9) }

\* C7 as claimed: A (Final, 11h ago) is in standard and out of tight; B (Scheduled,
\* 5h ahead) is in all three modes; C (Final, 60h ago) is out of standard and tight
\* and in broad.
C7_AsClaimed ==
    WReturned =>
        /\ WEventA /\ WMode = "standard" => WValue = TRUE
        /\ WEventA /\ WMode = "tight" => WValue = FALSE
        /\ WEventB => WValue = TRUE
        /\ WEventC /\ WMode \in {"standard", "tight"} => WValue = FALSE
        /\ WEventC /\ WMode = "broad" => WValue = TRUE

\* C7 amended: A is in standard and out of tight; B is in all three modes; C is out
\* of all three modes, broad included (60h is beyond broad's 48h).
C7_Scenario ==
    WReturned =>
        /\ WEventA /\ WMode = "standard" => WValue = TRUE
        /\ WEventA /\ WMode = "tight" => WValue = FALSE
        /\ WEventB => WValue = TRUE
        /\ WEventC => WValue = FALSE

C7_Witness ==
    /\ WReturned
    /\ WEventC
    /\ WMode = "broad"
    /\ WValue = FALSE

\* cache = Cache() at import of scores.py, with the server reachable or not
InitCache ==
    /\ redis_up \in BOOLEAN
    /\ cache_obj = Cache_init(redis_up)
    /\ redis = EmptyMap
    /\ now = 0
    /\ call = CallRecord("init", <<>>, <<>>, "", ~redis_up)
    /\ last_set = EmptyMap
    /\ WindowIdle
    /\ LiveIdle
    /\ KeysIdle

\* the call used the server and the server did not answer
StoreFailed ==
    cache_obj.use_redis /\ ~redis_up

CacheSet(key, value, expiration_minutes) ==
    LET r == Cache_set(cache_obj, redis, redis_up, now, key, value, expiration_minutes)
    IN  /\ cache_obj' = r.obj
        /\ redis' = r.redis
        /\ call' = CallRecord("set", key, r.ret, r.raised, StoreFailed)
        /\ last_set' = IF r.raised = ""
                       THEN Put(last_set, key,
                                [value |-> value, ttl |-> expiration_minutes, at |-> now])
                       ELSE last_set
        /\ UNCHANGED <<redis_up, now>>
        /\ UNCHANGED <<wvars, lvars>>
        /\ UNCHANGED kvars

CacheGet(key) ==
    LET r == Cache_get(cache_obj, redis, redis_up, now, key)
    IN  /\ cache_obj' = r.obj
        /\ redis' = r.redis
        /\ call' = CallRecord("get", key, r.ret, r.raised, StoreFailed)
        /\ UNCHANGED <<redis_up, now, last_set>>
        /\ UNCHANGED <<wvars, lvars>>
        /\ UNCHANGED kvars

CacheInvalidate(key) ==
    LET r == Cache_invalidate(cache_obj, redis, redis_up, key)
    IN  /\ cache_obj' = r.obj
        /\ redis' = r.redis
        /\ call' = CallRecord("invalidate", key, r.ret, r.raised, StoreFailed)
        /\ last_set' = IF r.raised = "" THEN Del(last_set, key) ELSE last_set
        /\ UNCHANGED <<redis_up, now>>
        /\ UNCHANGED <<wvars, lvars>>
        /\ UNCHANGED kvars

CacheClear ==
    LET r == Cache_clear(cache_obj, redis, redis_up)
    IN  /\ cache_obj' = r.obj
        /\ redis' = r.redis
        /\ call' = CallRecord("clear", <<>>, r.ret, r.raised, StoreFailed)
        /\ last_set' = IF r.raised = "" THEN EmptyMap ELSE last_set
        /\ UNCHANGED <<redis_up, now>>
        /\ UNCHANGED <<wvars, lvars>>
        /\ UNCHANGED kvars

\* a minute passes; the server drops the keys that expired
Tick ==
    /\ now < MaxTime
    /\ now' = now + 1
    /\ redis' = [k \in {x \in DOMAIN redis : now' < redis[x].expires_at} |-> redis[k]]
    /\ call' = CallRecord("tick", <<>>, <<>>, "", FALSE)
    /\ UNCHANGED <<cache_obj, redis_up, last_set>>
    /\ UNCHANGED <<wvars, lvars>>
    /\ UNCHANGED kvars

\* the server becomes unreachable
RedisDown ==
    /\ redis_up
    /\ redis_up' = FALSE
    /\ call' = CallRecord("down", <<>>, <<>>, "", FALSE)
    /\ UNCHANGED <<cache_obj, redis, now, last_set>>
    /\ UNCHANGED <<wvars, lvars>>
    /\ UNCHANGED kvars

\* the server becomes reachable again
RedisUp ==
    /\ ~redis_up
    /\ redis_up' = TRUE
    /\ call' = CallRecord("up", <<>>, <<>>, "", FALSE)
    /\ UNCHANGED <<cache_obj, redis, now, last_set>>
    /\ UNCHANGED <<wvars, lvars>>
    /\ UNCHANGED kvars

NextCache ==
    \/ \E a \in SetArgs : CacheSet(a[1], a[2], a[3])
    \/ \E k \in CKeys : CacheGet(k)
    \/ \E k \in CKeys : CacheInvalidate(k)
    \/ CacheClear
    \/ Tick
    \/ RedisDown
    \/ RedisUp

SpecCache ==
    InitCache /\ [][NextCache]_vars

(***************************************************************************)
(* Cache claims                                                            *)
(***************************************************************************)
\* C1: whenever the server is unreachable (at construction or during a later get,
\* set, invalidate or clear), the call returns without raising and is served from
\* the in-process map: a failed get returns a miss, a failed set leaves the value
\* in the in-process map.
C1_FallbackNeverRaises ==
    /\ call.raised = ""
    /\ call.store_failed /\ call.op = "get" => call.ret = <<>>
    /\ call.store_failed /\ call.op = "set" =>
           /\ cache_obj.has_maps
           /\ call.key \in DOMAIN cache_obj.cache
           /\ call.key \in DOMAIN last_set
           /\ cache_obj.cache[call.key] = last_set[call.key].value

\* C2: in-process round trip and lazy expiry: after set(k, v, T), a get(k) less than
\* T later returns v; a get(k) T or more later returns a miss and leaves k out of
\* the map.
C2_RoundTripAndExpiry ==
    ( /\ call.op = "get"
      /\ call.raised = ""
      /\ cache_obj.has_maps
      /\ ~cache_obj.use_redis
      /\ call.key \in DOMAIN last_set
      /\ last_set[call.key].ttl # <<>> ) =>
        LET s == last_set[call.key]
        IN  IF now - s.at < s.ttl[1]
            THEN call.ret = << s.value >>
            ELSE call.ret = <<>> /\ call.key \notin DOMAIN cache_obj.cache

(***************************************************************************)
(* Live aggregation: requests to /live and /scores served one at a time,   *)
(* with the in-process cache (no Redis server configured)                  *)
(***************************************************************************)
InitLive ==
    /\ filters \in FilterSets
    /\ frames = [h \in Handlers |-> IdleFrame]
    /\ resp = [h \in Handlers |-> NoResponse]
    /\ keys_seen = {}
    /\ entry_writer = EmptyMap
    /\ CacheIdle
    /\ WindowIdle
    /\ KeysIdle

KeySeen(endpoint, request, cache_key) ==
    [ endpoint |-> endpoint, sport |-> request.sport,
      collections |-> request.collections, cache_key |-> cache_key ]

\* a successful cache.set of a handler: who wrote, when, and for how long
Writer(request, t, ttl) ==
    [ page |-> request.page, page_size |-> request.page_size,
      force_refresh |-> request.force_refresh, at |-> t, ttl |-> ttl ]

\* <<whether the last write under the key was a forced one>> while the TTL of
\* that write has not elapsed, else <<>>
StoredFresh(cache_key, t) ==
    IF cache_key \in DOMAIN entry_writer
       /\ t - entry_writer[cache_key].at < entry_writer[cache_key].ttl
    THEN << entry_writer[cache_key].force_refresh >>
    ELSE <<>>

\* cached_scores = None if force_refresh else cache.get(cache_key) (lines 896, 637)
cache_lookup(obj, rd, up, t, force_refresh, cache_key) ==
    IF force_refresh THEN Outcome(obj, rd, <<>>, "")
    ELSE Cache_get(obj, rd, up, t, cache_key)

\* lines 1053-1116: the last sort, cache.set and the response
finish(h, f, obj, rd) ==
    LET scores == sort_by_priority_and_date(<<>>, f.enriched_games)
        r == Cache_set(obj, rd, redis_up, now, f.cache_key, scores,
                       <<LiveExpirationMinutes>>)
    IN  /\ cache_obj' = r.obj
        /\ redis' = r.redis
        /\ resp' = [resp EXCEPT ![h] = IF r.raised = ""
                                       THEN Response("live", f, scores, FALSE)
                                       ELSE ErrorResponse("live", f)]
        /\ entry_writer' = IF r.raised = ""
                           THEN Put(entry_writer, f.cache_key,
                                    Writer(f.request, now, LiveExpirationMinutes))
                           ELSE entry_writer
        /\ frames' = [frames EXCEPT ![h] = IdleFrame]

\* the handler goes on to its next await, or to its end when none is left
continue(h, f, obj, rd) ==
    IF f.pc = "enrich" /\ f.enrich_todo = <<>>
    THEN finish(h, f, obj, rd)
    ELSE /\ frames' = [frames EXCEPT ![h] = f]
         /\ resp' = [resp EXCEPT ![h] = NoResponse]
         /\ cache_obj' = obj
         /\ redis' = rd
         /\ UNCHANGED entry_writer

\* a request to /live arrives: lines 870-930
LiveStart(h, request) ==
    LET cache_key == live_cache_key(request)
        r == cache_lookup(cache_obj, redis, redis_up, now, request.force_refresh, cache_key)
        cached_scores == r.ret
        f == [IdleFrame EXCEPT !.request = request, !.sport = request.sport,
                               !.cache_key = cache_key,
                               !.seen_writer = StoredFresh(cache_key, now)]
    IN  /\ frames[h].pc = "idle"
        /\ keys_seen' = keys_seen \cup {KeySeen("live", request, cache_key)}
        /\ IF r.raised # ""
           THEN /\ resp' = [resp EXCEPT ![h] = ErrorResponse("live", f)]
                /\ cache_obj' = r.obj
                /\ redis' = r.redis
                /\ UNCHANGED <<frames, entry_writer>>
           ELSE IF cached_scores # <<>> /\ cached_scores[1] # <<>>
           THEN /\ resp' = [resp EXCEPT ![h] = Response("live", f, cached_scores[1], TRUE)]
                /\ cache_obj' = r.obj
                /\ redis' = r.redis
                /\ UNCHANGED <<frames, entry_writer>>
           ELSE continue(h, advance([begin_aggregation(request, cache_key, now)
                                        EXCEPT !.seen_writer = f.seen_writer,
                                               !.evicted =
                                                   /\ cache_key \in DOMAIN cache_obj.cache
                                                   /\ cache_key \notin DOMAIN r.obj.cache]),
                         r.obj, r.redis)
        /\ UNCHANGED <<redis_up, now, call, last_set, filters>>
        /\ UNCHANGED wvars
        /\ UNCHANGED kvars

\* the fetch of one collection group returns or raises: lines 945-960
LiveFetchCollection(h, outcome, detailed) ==
    /\ frames[h].pc = "collections"
    /\ frames[h].coll_todo # <<>>
    /\ continue(h, advance(collection_step(frames[h], outcome, detailed)), cache_obj, redis)
    /\ UNCHANGED <<redis_up, now, call, last_set, filters, keys_seen>>
    /\ UNCHANGED wvars
    /\ UNCHANGED kvars

\* fetch_scores of one general sport returns: lines 983-1004
LiveFetchGeneral(h, outcome, detailed) ==
    /\ frames[h].pc = "general"
    /\ frames[h].gen_todo # <<>>
    /\ continue(h, advance(general_step(frames[h], outcome, detailed)), cache_obj, redis)
    /\ UNCHANGED <<redis_up, now, call, last_set, filters, keys_seen>>
    /\ UNCHANGED wvars
    /\ UNCHANGED kvars

\* _enrich_with_detailed_status of one sport returns: lines 1043-1050
LiveEnrich(h, detailed) ==
    /\ frames[h].pc = "enrich"
    /\ frames[h].enrich_todo # <<>>
    /\ continue(h, enrich_step(frames[h], detailed), cache_obj, redis)
    /\ UNCHANGED <<redis_up, now, call, last_set, filters, keys_seen>>
    /\ UNCHANGED wvars
    /\ UNCHANGED kvars

\* a request to /scores arrives: lines 620-641
ScoresStart(h, request) ==
    LET cache_key == scores_cache_key(request)
        r == cache_lookup(cache_obj, redis, redis_up, now, request.force_refresh, cache_key)
        cached_scores == r.ret
        f == [IdleFrame EXCEPT !.pc = "scores", !.request = request,
                               !.sport = request.sport, !.cache_key = cache_key,
                               !.seen_writer = StoredFresh(cache_key, now)]
    IN  /\ frames[h].pc = "idle"
        /\ TruthyStr(request.sport)
        /\ IsNone(request.collections)
        /\ keys_seen' = keys_seen \cup {KeySeen("scores", request, cache_key)}
        /\ cache_obj' = r.obj
        /\ redis' = r.redis
        /\ IF r.raised # ""
           THEN /\ resp' = [resp EXCEPT ![h] = ErrorResponse("scores", f)]
                /\ UNCHANGED frames
           ELSE IF cached_scores # <<>> /\ cached_scores[1] # <<>>
           THEN /\ resp' = [resp EXCEPT ![h] = Response("scores", f, cached_scores[1], TRUE)]
                /\ UNCHANGED frames
           ELSE /\ resp' = [resp EXCEPT ![h] = NoResponse]
                /\ frames' = [frames EXCEPT ![h] = f]
        /\ UNCHANGED <<redis_up, now, call, last_set, filters, entry_writer>>
        /\ UNCHANGED wvars
        /\ UNCHANGED kvars

\* fetch_scores returns to get_scores: lines 642-660
ScoresFetch(h, outcome, detailed) ==
    LET f == [frames[h] EXCEPT !.any_ok = outcome = "ok", !.any_failed = outcome # "ok"]
        espn_sport == convert_sport_format(f.request.sport[1])
        got == fetch_scores(espn_sport, DefaultLimit, outcome, detailed)
        w == Cache_set(cache_obj, redis, redis_up, now, f.cache_key, got.events, <<>>)
    IN  /\ frames[h].pc = "scores"
        /\ cache_obj' = w.obj
        /\ redis' = w.redis
        /\ resp' = [resp EXCEPT ![h] = IF w.raised = ""
                                       THEN Response("scores", f, got.events, FALSE)
                                       ELSE ErrorResponse("scores", f)]
        /\ entry_writer' = IF w.raised = ""
                           THEN Put(entry_writer, f.cache_key,
                                    Writer(f.request, now, DefaultExpirationMinutes))
                           ELSE entry_writer
        /\ frames' = [frames EXCEPT ![h] = IdleFrame]
        /\ UNCHANGED <<redis_up, now, call, last_set, filters, keys_seen>>
        /\ UNCHANGED wvars
        /\ UNCHANGED kvars

\* a minute passes between two requests (a request is served within the minute
\* it arrived in); the last response has been delivered, and the writes whose
\* TTL has elapsed are forgotten
LiveTick ==
    /\ now < LiveMaxTime
    /\ \A h \in Handlers : frames[h].pc = "idle"
    /\ now' = now + 1
    /\ resp' = [h \in Handlers |-> NoResponse]
    /\ entry_writer' = [ k \in { x \in DOMAIN entry_writer :
                                  now' - entry_writer[x].at < entry_writer[x].ttl } |->
                            entry_writer[k] ]
    /\ UNCHANGED <<cache_obj, redis, redis_up, call, last_set>>
    /\ UNCHANGED <<frames, filters, keys_seen>>
    /\ UNCHANGED wvars
    /\ UNCHANGED kvars

NextLive ==
    \/ \E h \in LiveHandlers, request \in Requests : LiveStart(h, request)
    \/ \E h \in LiveHandlers, outcome \in FetchOutcomes, detailed \in SUBSET DetailIds :
           LiveFetchCollection(h, outcome, detailed)
    \/ \E h \in LiveHandlers, outcome \in FetchOutcomes, detailed \in SUBSET DetailIds :
           LiveFetchGeneral(h, outcome, detailed)
    \/ \E h \in LiveHandlers, detailed \in SUBSET DetailIds : LiveEnrich(h, detailed)
    \/ \E h \in LiveHandlers, request \in Requests : ScoresStart(h, request)
    \/ \E h \in LiveHandlers, outcome \in FetchOutcomes, detailed \in SUBSET DetailIds :
           ScoresFetch(h, outcome, detailed)
    \/ LiveTick

SpecLive ==
    InitLive /\ [][NextLive]_vars

(***************************************************************************)
(* Aggregation claims                                                      *)
(***************************************************************************)
\* the handler h has just answered a request to /live
LiveAnswered(h) ==
    resp[h].endpoint = "live" /\ resp[h].status \in {200, 404}

\* the handler h has just answered a request to /live by aggregating
LiveAggregated(h) ==
    resp[h].endpoint = "live" /\ resp[h].status # 0 /\ ~resp[h].from_cache

\* no two positions of the list hold the same id
NoDuplicateIds(scores) ==
    \A i, j \in DOMAIN scores : scores[i].id = scores[j].id => i = j

\* the positions of the list that hold the id
Copies(scores, id) ==
    { i \in DOMAIN scores : scores[i].id = id }

\* the value of the in-process cache under the key, <<>> when there is none
Entry(cache_key) ==
    IF cache_key \in DOMAIN cache_obj.cache THEN << cache_obj.cache[cache_key] >> ELSE <<>>

\* C3: the event list a /live request returns, and every list the cache holds,
\* has no two events with the same identifier.
C3_NoDuplicateIds ==
    /\ \A h \in Handlers : LiveAnswered(h) => NoDuplicateIds(resp[h].scores)
    /\ \A k \in DOMAIN cache_obj.cache : NoDuplicateIds(cache_obj.cache[k])

\* C4: an id handed over both by a collection fetch and by a general fetch is in
\* the aggregated list once, and that copy is the one of the collection fetch.
C4_CollectionCopyWins ==
    \A h \in Handlers :
        LiveAggregated(h) =>
            \A id \in resp[h].coll_ids \cap resp[h].gen_ids :
                /\ Cardinality(Copies(resp[h].scores, id)) = 1
                /\ \A i \in Copies(resp[h].scores, id) :
                       resp[h].scores[i].src = "collection"

C4_Witness ==
    \E h \in Handlers :
        /\ LiveAggregated(h)
        /\ resp[h].status = 200
        /\ resp[h].coll_ids \cap resp[h].gen_ids # {}
        /\ resp[h].gen_ids \ resp[h].coll_ids # {}

C9_TotalOutage ==
    \A h \in Handlers :
        (LiveAggregated(h) /\ resp[h].any_failed /\ ~resp[h].any_ok) =>
            /\ resp[h].status # 500
            /\ resp[h].scores = <<>>
            /\ Entry(resp[h].cache_key) = << <<>> >>
            /\ resp[h].request.page = 1 =>
                   (resp[h].status = 200 /\ resp[h].data = <<>> /\ resp[h].total_scores = 0)

C9_Witness ==
    \E h \in Handlers :
        /\ LiveAggregated(h)
        /\ resp[h].any_failed
        /\ ~resp[h].any_ok
        /\ resp[h].request.page = 1
        /\ resp[h].status = 200
        /\ IsNone(resp[h].request.collections)

\* C10: requests to one endpoint that differ only in page, page_size (or
\* force_refresh) computed the same cache key; a request that fetched left its
\* list under that key, and a request served from the cache got the list
\* under that key.
C10_KeyIgnoresPagination ==
    /\ \A a, b \in keys_seen :
           (a.endpoint = b.endpoint /\ a.sport = b.sport /\ a.collections = b.collections)
               => a.cache_key = b.cache_key
    /\ \A h \in Handlers :
           resp[h].status \in {200, 404} =>
               /\ \E k \in keys_seen :
                      /\ k.endpoint = resp[h].endpoint
                      /\ k.sport = resp[h].request.sport
                      /\ k.collections = resp[h].request.collections
                      /\ k.cache_key = resp[h].cache_key
               /\ Entry(resp[h].cache_key) = << resp[h].scores >>

\* a request is served from the entry a request with another page wrote
C10_Witness ==
    \E h \in Handlers :
        /\ resp[h].endpoint = "live"
        /\ resp[h].status = 200
        /\ resp[h].from_cache
        /\ resp[h].cache_key \in DOMAIN entry_writer
        /\ entry_writer[resp[h].cache_key].page # resp[h].request.page

(***************************************************************************)
(* Cache use by the handlers                                               *)
(***************************************************************************)
\* the handler h is fetching for a request
InFlight(h) ==
    frames[h].pc # "idle"

\* the handler h has just answered
Answered(h) ==
    resp[h].status # 0

\* C11: a request without force_refresh that arrives while the last result
\* stored under its key has not outlived its TTL is served from the cache
\* and fetches nothing, whatever the stored list and the page.
C11_ServedFromCache ==
    \A h \in Handlers :
        /\ (InFlight(h) /\ ~frames[h].request.force_refresh)
               => frames[h].seen_writer = <<>>
        /\ (Answered(h) /\ ~resp[h].request.force_refresh /\ resp[h].seen_writer # <<>>)
               => resp[h].from_cache

\* C12: a request with force_refresh is never served from the cache; when it
\* completes, its list is the entry under the key the requests without
\* force_refresh use; and a request without force_refresh that arrives before
\* the TTL of that write elapses is served from the cache.
C12_ForceRefresh ==
    \A h \in Handlers :
        /\ (Answered(h) /\ resp[h].request.force_refresh) => ~resp[h].from_cache
        /\ (Answered(h) /\ resp[h].request.force_refresh /\ resp[h].status # 500) =>
               /\ Entry(resp[h].cache_key) = << resp[h].scores >>
               /\ resp[h].cache_key \in DOMAIN entry_writer
               /\ entry_writer[resp[h].cache_key].force_refresh
               /\ \A k \in keys_seen :
                      (/\ k.endpoint = resp[h].endpoint
                       /\ k.sport = resp[h].request.sport
                       /\ k.collections = resp[h].request.collections)
                          => k.cache_key = resp[h].cache_key
        /\ (InFlight(h) /\ ~frames[h].request.force_refresh)
               => frames[h].seen_writer # <<TRUE>>
        /\ (Answered(h) /\ ~resp[h].request.force_refresh /\ resp[h].seen_writer = <<TRUE>>)
               => /\ resp[h].from_cache
                  /\ << resp[h].scores >> = Entry(resp[h].cache_key)


(***************************************************************************)
(* The cache key of /live on its own: the keys of two requests, computed   *)
(* as lines 871-893 compute them                                           *)
(***************************************************************************)
N_Big_Sky ==
    <<"B","i","g","-","S","k","y">>

N_nfl ==
    <<"n","f","l">>

\* a name that is neither a sport filter nor a collection
N_unknown ==
    <<"x","y","z">>

N_NBA ==
    <<"N","B","A">>

\* the collections parameters the two requests are drawn from
KeyCollections ==
    { <<>>,
      << N_nba >>,
      << N_NBA >>,
      << N_nba \o <<",">> \o N_mcbb >>,
      << N_mcbb \o <<",">> \o N_nba >>,
      << N_NBA \o <<",">> \o N_mcbb >>,
      << N_nba \o <<","," ">> \o N_mcbb >>,
      << N_big_sky \o <<",">> \o N_cfb_top_25 >>,
      << N_cfb_top_25 \o <<",">> \o N_big_sky >>,
      << N_big_sky >>,
      << N_big_sky_spaced >>,
      << N_Big_Sky >>,
      << N_big_sky \o <<",">> \o N_unknown >>,
      << N_nba \o <<",">> \o N_unknown >>,
      << N_nba \o <<",">> \o N_nfl >>,
      << N_nba \o <<"_">> \o N_nfl >> }

KeySports ==
    { <<>>, << <<"b","a","s","k","e","t","b","a","l","l","_","n","b","a">> >> }

\* sport=all_sports
KeyAllSports ==
    << <<"a","l","l","_","s","p","o","r","t","s">> >>

KeyRequests ==
    { Request(sport, collections, 1, DefaultPageSize, FALSE) :
          sport \in KeySports, collections \in KeyCollections }
    \cup { Request(KeyAllSports, <<>>, 1, DefaultPageSize, FALSE) }

InitKeys ==
    /\ kcall \in KeyRequests \X KeyRequests
    /\ kret = << >>
    /\ kres = << >>
    /\ WindowIdle
    /\ CacheIdle
    /\ LiveIdle

\* both requests reach line 893
KeyCall ==
    /\ kret = << >>
    /\ kret' = << live_cache_key(kcall[1]), live_cache_key(kcall[2]) >>
    /\ UNCHANGED <<kcall, kres>>
    /\ UNCHANGED <<wvars, cvars, lvars>>

RECURSIVE run_fetches(_, _, _)
\* the handler run from its first await to its last, every fetch with the same
\* outcome
run_fetches(f, outcome, detailed) ==
    IF f.pc = "collections" /\ f.coll_todo # <<>>
    THEN run_fetches(advance(collection_step(f, outcome, detailed)), outcome, detailed)
    ELSE IF f.pc = "general" /\ f.gen_todo # <<>>
    THEN run_fetches(advance(general_step(f, outcome, detailed)), outcome, detailed)
    ELSE IF f.pc = "enrich" /\ f.enrich_todo # <<>>
    THEN run_fetches(enrich_step(f, detailed), outcome, detailed)
    ELSE f

\* lines 903-1054 on a cache miss: what was resolved from the collection names,
\* which fetches were made, and the list that results
aggregate(request, outcome, detailed) ==
    LET begun == begin_aggregation(request, live_cache_key(request), 0)
        f == run_fetches(advance(begun), outcome, detailed)
    IN  [ sport_filters_requested |-> begun.sport_filters_requested,
          collection_fetches |-> begun.coll_todo,
          general_fetches |-> [ i \in DOMAIN f.gen_done |-> f.gen_done[i].sport ],
          sports_to_check |-> sports_to_check(request),
          all_live_scores |-> sort_by_priority_and_date(<<>>, f.enriched_games) ]

\* both requests miss the cache and aggregate while the provider answers every
\* fetch the same way
AggregateCall(outcome) ==
    /\ kret # << >>
    /\ kres = << >>
    /\ kres' = << aggregate(kcall[1], outcome, {}), aggregate(kcall[2], outcome, {}) >>
    /\ UNCHANGED <<kcall, kret>>
    /\ UNCHANGED <<wvars, cvars, lvars>>

NextKeys ==
    \/ KeyCall
    \/ \E outcome \in {"ok", "raise"} : AggregateCall(outcome)

SpecKeys ==
    InitKeys /\ [][NextKeys]_vars

\* the names of a collections parameter, in lower case
names_lower(collections) ==
    IF TruthyStr(collections)
    THEN LET names == collection_list(collections[1])
         IN  [i \in DOMAIN names |-> lower(names[i])]
    ELSE << >>

\* how often a name occurs in a list of names
occurrences(names, name) ==
    Cardinality({ i \in DOMAIN names : names[i] = name })

\* the same names, each as often, in any order and any letter case
SameNames(a, b) ==
    LET na == names_lower(a.collections)
        nb == names_lower(b.collections)
    IN  /\ Len(na) = Len(nb)
        /\ \A i \in DOMAIN na : occurrences(na, na[i]) = occurrences(nb, na[i])

\* C13: two requests for the same sport whose collection lists hold the same
\* names, in a different order or in different letter case, get the same
\* cache key.
C13_KeyIgnoresOrderAndCase ==
    (kret # << >> /\ kcall[1].sport = kcall[2].sport /\ SameNames(kcall[1], kcall[2]))
        => kret[1] = kret[2]

(***************************************************************************)
(* Order of the live list                                                  *)
(***************************************************************************)
\* ascending order of (sport priority rank, start): a lower rank first, and within
\* a rank the earlier start first
InPriorityAndDateOrder(scores) ==
    \A i, j \in DOMAIN scores :
        i < j =>
            \/ get_sport_priority(scores[i].sport) < get_sport_priority(scores[j].sport)
            \/ /\ get_sport_priority(scores[i].sport) = get_sport_priority(scores[j].sport)
               /\ scores[i].date <= scores[j].date

\* the keys the requests to /live have used
LiveKeys ==
    { k.cache_key : k \in { x \in keys_seen : x.endpoint = "live" } }

\* C14: whichever fetches succeed or fail, the list a /live request returns and
\* the list the cache holds under a /live key are in ascending order of
\* (sport priority rank, start): lower ranks first, earlier starts first
\* within a rank.
C14_SortedByPriorityAndDate ==
    /\ \A h \in Handlers :
           LiveAnswered(h) => /\ InPriorityAndDateOrder(resp[h].scores)
                              /\ InPriorityAndDateOrder(resp[h].data)
    /\ \A k \in LiveKeys :
           Entry(k) # <<>> => InPriorityAndDateOrder(Entry(k)[1])

\* an aggregation with a failed fetch returned games of two ranks, two of one
\* rank with different starts, and the list is in the cache
C14_Witness ==
    \E h \in Handlers :
        /\ LiveAggregated(h) /\ resp[h].status = 200 /\ resp[h].any_failed
        /\ Entry(resp[h].cache_key) = << resp[h].scores >>
        /\ \E i, j \in DOMAIN resp[h].scores :
               /\ get_sport_priority(resp[h].scores[i].sport)
                      = get_sport_priority(resp[h].scores[j].sport)
               /\ resp[h].scores[i].date < resp[h].scores[j].date
        /\ \E i, j \in DOMAIN resp[h].scores :
               get_sport_priority(resp[h].scores[i].sport)
                   < get_sport_priority(resp[h].scores[j].sport)

(***************************************************************************)
(* Which general sports an aggregation fetches                             *)
(***************************************************************************)
\* the handler h has just answered a request to /live by aggregating, and no
\* exception left the handler
Aggregated(h) ==
    LiveAggregated(h) /\ resp[h].status # 500

\* C15: an aggregation fetches general sports unless collections were named, no
\* sport filter was among them and the collections returned more than 25
\* events, and only then does it not.
C15_GeneralFetchedUnlessManyCollectionGames ==
    \A h \in Handlers :
        Aggregated(h) =>
            (resp[h].frame.gen_done # <<>>
                <=> ~(/\ TruthyStr(resp[h].request.collections)
                      /\ resp[h].frame.sport_filters_requested = <<>>
                      /\ Len(resp[h].frame.collection_scores) > CollectionLimit))

(***************************************************************************)
(* Window flags and sports of the general fetches                          *)
(***************************************************************************)
\* the calls of fetch_scores a handler has made for the request it is working
\* on or has just answered by aggregating
GeneralFetches ==
    UNION { { [ request |-> frames[h].request, current_time |-> frames[h].current_time,
                done |-> frames[h].gen_done[i] ] : i \in DOMAIN frames[h].gen_done } :
            h \in { x \in Handlers : InFlight(x) } }
    \cup
    UNION { { [ request |-> resp[h].request, current_time |-> resp[h].frame.current_time,
                done |-> resp[h].frame.gen_done[i] ] : i \in DOMAIN resp[h].frame.gen_done } :
            h \in { x \in Handlers : Aggregated(x) } }

\* the games of a general fetch that a window rule lets through
InTight(g) ==
    { e.id : e \in { x \in { g.done.fetched[i] : i \in DOMAIN g.done.fetched } :
                        tight_window_rule(x.date, x.status, g.current_time) } }

InBroad(g) ==
    { e.id : e \in { x \in { g.done.fetched[i] : i \in DOMAIN g.done.fetched } :
                        collection_window(x.date, x.status, g.current_time) } }

\* the window of a general fetch is tight iff no collections parameter came with
\* the request and broad iff one did, and never both
GeneralWindowMode ==
    \A g \in GeneralFetches :
        /\ g.done.tight_window <=> IsNone(g.request.collections)
        /\ g.done.collection_mode <=> ~IsNone(g.request.collections)
        /\ ~(g.done.tight_window /\ g.done.collection_mode)
        /\ IsNone(g.request.collections) => ids(g.done.kept) = InTight(g)
        /\ ~IsNone(g.request.collections) => ids(g.done.kept) = InBroad(g)

\* the sports the calls of fetch_scores of a finished aggregation were made for
SportsFetched(h) ==
    [ i \in DOMAIN resp[h].frame.gen_done |-> resp[h].frame.gen_done[i].sport ]

InSelectedWindow(request, current_time, game) ==
    IF IsNone(request.collections)
    THEN tight_window_rule(game.date, game.status, current_time)
    ELSE collection_window(game.date, game.status, current_time)

\* C17: every game of the list an aggregation returns and caches, whether a
\* collection fetch or a general fetch produced it, is inside the window of the
\* mode the request selects.
C17_EveryGameInWindow ==
    \A h \in Handlers :
        Aggregated(h) =>
            /\ \A i \in DOMAIN resp[h].scores :
                   InSelectedWindow(resp[h].request, resp[h].frame.current_time,
                                    resp[h].scores[i])
            /\ Entry(resp[h].cache_key) # <<>> =>
                   \A i \in DOMAIN Entry(resp[h].cache_key)[1] :
                       InSelectedWindow(resp[h].request, resp[h].frame.current_time,
                                        Entry(resp[h].cache_key)[1][i])

FetchesLeft(h) ==
    IF frames[h].pc = "collections" THEN frames[h].coll_todo
    ELSE IF frames[h].pc = "general" THEN frames[h].gen_todo
    ELSE << >>

\* C19: the partition fetches of one aggregation run concurrently: while one of
\* them is outstanding no other waits to be issued, so that with two or more
\* partitions two fetches are outstanding at the same time.
C19_PartitionFetchesFanOut ==
    \A h \in Handlers :
        InFlight(h) => Len(FetchesLeft(h)) <= 1

(***************************************************************************)
(* Two requests to /live at once                                           *)
(*                                                                         *)
(* The handlers are coroutines of one event loop: a handler runs from one  *)
(* await to the next without interruption, and the methods of Cache hold   *)
(* no await, so every cache.get and cache.set runs inside one such step.   *)
(* Both handlers serve first pages of the filter of the behaviour.         *)
(***************************************************************************)
ConcurrentFilterSets ==
    { { Filter(<< <<"b","a","s","k","e","t","b","a","l","l","_","n","b","a">> >>, <<>>) },
      { Filter(<<>>, << N_big_sky >>) } }

ConcurrentRequests ==
    { Request(f.sport, f.collections, 1, DefaultPageSize, FALSE) : f \in filters }

InitConcurrent ==
    /\ filters \in ConcurrentFilterSets
    /\ frames = [h \in Handlers |-> IdleFrame]
    /\ resp = [h \in Handlers |-> NoResponse]
    /\ keys_seen = {}
    /\ entry_writer = EmptyMap
    /\ CacheIdle
    /\ WindowIdle
    /\ KeysIdle

NextConcurrent ==
    \/ \E h \in Handlers, request \in ConcurrentRequests : LiveStart(h, request)
    \/ \E h \in Handlers, outcome \in FetchOutcomes, detailed \in SUBSET DetailIds :
           LiveFetchCollection(h, outcome, detailed)
    \/ \E h \in Handlers, outcome \in FetchOutcomes, detailed \in SUBSET DetailIds :
           LiveFetchGeneral(h, outcome, detailed)
    \/ \E h \in Handlers, detailed \in SUBSET DetailIds : LiveEnrich(h, detailed)
    \/ LiveTick

SpecConcurrent ==
    InitConcurrent /\ [][NextConcurrent]_vars

\* C20: the cache operations of concurrent requests exclude one another: a value
\* stored by one request is in the cache, with the time of its write, until its
\* TTL elapses, whatever cache.get of another request evicted in between; the
\* two maps of the cache always hold the same keys; and no cache operation of
\* a request fails.
C20_CacheOperationsAtomic ==
    /\ \A k \in DOMAIN entry_writer :
           now - entry_writer[k].at < entry_writer[k].ttl =>
               /\ k \in DOMAIN cache_obj.cache
               /\ k \in DOMAIN cache_obj.last_updated
               /\ cache_obj.last_updated[k] = entry_writer[k].at
    /\ DOMAIN cache_obj.cache = DOMAIN cache_obj.last_updated
    /\ \A h \in Handlers : resp[h].status # 500

\* one handler evicted the expired entry of its key and is still fetching while
\* the other has stored its fresh list under the same key
C20_Witness ==
    \E h1, h2 \in Handlers :
        /\ h1 # h2
        /\ InFlight(h1) /\ frames[h1].evicted
        /\ Aggregated(h2) /\ resp[h2].cache_key = frames[h1].cache_key
        /\ resp[h2].frame.current_time = frames[h1].current_time
        /\ Entry(frames[h1].cache_key) = << resp[h2].scores >>
        /\ frames[h1].cache_key \in DOMAIN entry_writer

(***************************************************************************)
(* Resolution of the collection names                                      *)
(***************************************************************************)
\* a name in lower case with its spaces and hyphens turned into underscores
underscored(name) ==
    replace(replace(lower(name), " ", <<"_">>), "-", <<"_">>)

\* the names of the collections parameter of a request
NamesOf(request) ==
    IF TruthyStr(request.collections) THEN collection_list(request.collections[1]) ELSE << >>

\* the fetches of collection groups an aggregation makes
GroupsFetched(result) ==
    { result.collection_fetches[i] : i \in DOMAIN result.collection_fetches }

\* C21: every spelling of the legacy collection Big Sky ('big sky', 'Big-Sky',
\* 'big_sky'), once in lower case with spaces and hyphens as underscores,
\* resolves to men's college basketball group 5 and college football group 20.
C21_BigSkySpellingsResolve ==
    kres # << >> =>
        \A r \in 1..2 :
            (\E i \in DOMAIN NamesOf(kcall[r]) : underscored(NamesOf(kcall[r])[i]) = N_big_sky)
                => { [ espn_sport |-> Sp_mcbb, group_id |-> 5 ],
                     [ espn_sport |-> Sp_cfb, group_id |-> 20 ] } \subseteq GroupsFetched(kres[r])

\* the name is neither a sport filter nor a collection of the table
UnknownName(name) ==
    /\ collection_key(name) \notin DOMAIN basic_sport_filters
    /\ collection_key(name) \notin DOMAIN collection_groups

\* the names of a request that are sport filters or collections
KnownNames(request) ==
    LET known(name) == ~UnknownName(name)
    IN  SelectSeq(NamesOf(request), known)

\* the second request names what the first names, and unknown names besides
AddsUnknownNames(a, b) ==
    /\ a.sport = b.sport
    /\ NamesOf(a) # << >>
    /\ KnownNames(a) = NamesOf(a)
    /\ KnownNames(b) = NamesOf(a)
    /\ Len(NamesOf(b)) > Len(NamesOf(a))

\* C22: a request whose collection list holds, besides the names of another
\* non-empty list, names that are neither sport filters nor collections makes
\* the same fetches and gets the same list as the request without them; the
\* aggregation reaches its end.
C22_UnknownNamesDropped ==
    (kres # << >> /\ AddsUnknownNames(kcall[1], kcall[2])) =>
        /\ kres[1].sport_filters_requested = kres[2].sport_filters_requested
        /\ kres[1].collection_fetches = kres[2].collection_fetches
        /\ kres[1].general_fetches = kres[2].general_fetches
        /\ kres[1].all_live_scores = kres[2].all_live_scores

\* a collection and the same collection with an unknown name were aggregated:
\* both fetched the collection's groups and got its games
C22_Witness ==
    /\ kres # << >>
    /\ AddsUnknownNames(kcall[1], kcall[2])
    /\ kres[2].collection_fetches # << >>
    /\ kres[2].all_live_scores # << >>


\* what a request means upstream: the sport filters and collection groups its
\* names resolve to, the sports of its sport parameter, and whether a
\* collections parameter came with it
Meaning(request, result) ==
    << result.sport_filters_requested, result.collection_fetches,
       result.sports_to_check, IsNone(request.collections) >>

\* C29: two requests to /live that resolve to different sport filters,
\* collection groups or sports never have the same cache key.
C29_KeysInjective ==
    (kres # << >> /\ Meaning(kcall[1], kres[1]) # Meaning(kcall[2], kres[2]))
        => kret[1] # kret[2]

(***************************************************************************)
(* Expiration of the entries                                               *)
(***************************************************************************)
\* the expiration a set is to apply: the one passed, the default when none is
Applied(expiration_minutes) ==
    IF expiration_minutes = <<>> THEN DefaultExpirationMinutes ELSE expiration_minutes[1]

\* C24: set applies the expiration the caller passed, 0 included, and the
\* default of 5 minutes only when none was passed: right after set the entry
\* expires that long after the write, and a get at or after that time misses.
C24_PassedTtlApplied ==
    /\ (call.op = "set" /\ call.raised = "") =>
           IF cache_obj.use_redis
           THEN /\ call.key \in DOMAIN redis
                /\ redis[call.key].expires_at = now + Applied(last_set[call.key].ttl)
           ELSE /\ call.key \in DOMAIN cache_obj.custom_expirations
                /\ cache_obj.custom_expirations[call.key] = Applied(last_set[call.key].ttl)
    /\ (/\ call.op = "get" /\ call.raised = "" /\ ~call.store_failed
        /\ call.key \in DOMAIN last_set
        /\ now - last_set[call.key].at >= Applied(last_set[call.key].ttl))
           => call.ret = <<>>

(***************************************************************************)
(* The maps of the in-process store                                        *)
(***************************************************************************)
\* the object was constructed without a server and keeps its entries in its maps
InProcess ==
    cache_obj.has_maps /\ ~cache_obj.use_redis

HitStep(h) ==
    /\ resp'[h] # resp[h]
    /\ resp'[h].status # 0
    /\ resp'[h].from_cache

\* C28: a get that hits leaves the entry as it is: the step of a request served
\* from the cache changes neither the stored list nor the time or the
\* expiration of its write, and a request is served from the cache only while
\* the last write under its key is younger than its expiration, however many
\* requests read the entry in between.
C28_HitLeavesEntryUnchanged ==
    /\ [][\A h \in Handlers : HitStep(h) => cache_obj' = cache_obj]_vars
    /\ [](\A h \in Handlers :
              (Answered(h) /\ resp[h].from_cache) =>
                  /\ resp[h].seen_writer # <<>>
                  /\ Entry(resp[h].cache_key) = << resp[h].scores >>)

\* a request was served from the cache a minute after the entry was written,
\* and the entry is as it was written
C28_Witness ==
    \E h \in Handlers :
        /\ Answered(h) /\ resp[h].from_cache
        /\ resp[h].cache_key \in DOMAIN entry_writer
        /\ entry_writer[resp[h].cache_key].at < now
        /\ cache_obj.last_updated[resp[h].cache_key] = entry_writer[resp[h].cache_key].at


(***************************************************************************)
(* Aggregations of one key at the same time                                *)
(***************************************************************************)
\* C25: while a request for a cache key is aggregating, another request for the
\* key that came without force_refresh does not aggregate: at most one
\* aggregation per key is under way at any time.
C25_OneAggregationPerKey ==
    \A h1, h2 \in Handlers :
        (/\ h1 # h2
         /\ InFlight(h1) /\ InFlight(h2)
         /\ frames[h1].cache_key = frames[h2].cache_key)
            => (frames[h1].request.force_refresh /\ frames[h2].request.force_refresh)

(***************************************************************************)
(* The response served from the cache and the response aggregated          *)
(***************************************************************************)
\* C30: for given parameters the response of /live is the same whether it was
\* served from the cache or aggregated: the filter description depends on the
\* sport and collections parameters alone (a request without sport is
\* described as 'All sports' or by its collections), and the list served
\* from the cache is the list that the aggregation stored.
C30_SameResponseFromCache ==
    \A h \in Handlers :
        LiveAnswered(h) =>
            /\ resp[h].filter = filter_description(resp[h].request.sport,
                                                   resp[h].request.collections)
            /\ IsNone(resp[h].request.sport) => resp[h].filter.text # "Specific sport"
            /\ Entry(resp[h].cache_key) = << resp[h].scores >>


\* C27: in in-process mode the expiration get(k) compares against is that of the
\* most recent set(k), the default when that set passed none: an expiration
\* recorded for k by an earlier set that outlived invalidate(k), an eviction or
\* clear() is never applied to a value stored later.
C27_TtlOfMostRecentSet ==
    InProcess =>
        /\ \A k \in DOMAIN cache_obj.cache :
               /\ k \in DOMAIN last_set
               /\ k \in DOMAIN cache_obj.custom_expirations
               /\ cache_obj.custom_expirations[k] = Applied(last_set[k].ttl)
        /\ (call.op = "get" /\ call.key \in DOMAIN last_set) =>
               (call.ret # <<>>
                    <=> now - last_set[call.key].at < Applied(last_set[call.key].ttl))


(***************************************************************************)
(* The two stores behind one contract                                      *)
(***************************************************************************)
\* what the in-process store answers to get(key) after the calls made so far:
\* the value of the last set(key) not followed by invalidate(key) or clear(),
\* while younger than the expiration Cache.set recorded for it (line 43)
InProcessAnswer(key) ==
    IF key \in DOMAIN last_set
    THEN LET s == last_set[key]
             expiration == IF Truthy(s.ttl) THEN s.ttl[1] ELSE DefaultExpirationMinutes
         IN  IF now - s.at < expiration THEN << s.value >> ELSE <<>>
    ELSE <<>>

\* the get was answered by the server, as every call before it
AnsweredByRedis ==
    /\ call.op = "get"
    /\ call.raised = ""
    /\ cache_obj.use_redis
    /\ ~call.store_failed

\* C23: after any sequence of set, get, invalidate and clear, a get answered by
\* the Redis-backed cache has the hit/miss outcome and the value that the
\* in-process cache gives after the same calls, for lists and for plain strings,
\* those that are valid JSON text ('1', 'null') included.
C23_StoresAgree ==
    AnsweredByRedis => call.ret = InProcessAnswer(call.key)

====
